---- MODULE Spec2Model ----
(***************************************************************************)
(* crabrl: the single-pass XBRL instance parser (FullXbrlParser), its byte *)
(* scanner and its value coercion, as a state machine over a byte buffer.  *)
(*                                                                         *)
(* A byte is a one-character string; a buffer, a tag name, an attribute    *)
(* value are sequences of bytes.  All input of the model is 7-bit ASCII,   *)
(* so the from_utf8 checks of the source never fail.  Scanner positions    *)
(* are 0-based as in the source: the byte at position p is data[p + 1].    *)
(***************************************************************************)
EXTENDS Integers, Sequences, FiniteSets, TLC

VARIABLES
    data,                 \* SimdScanner.data: the immutable input buffer
    pos,                  \* SimdScanner.pos: the cursor
    avx2,                 \* is_x86_feature_detected!("avx2") of the host
    in_xbrl_root,         \* FullXbrlParser.in_xbrl_root
    current_tuple_stack,  \* FullXbrlParser.current_tuple_stack
    document,             \* FullXbrlParser.document, the Document being built
    interner,             \* ArenaAllocator.string_interner: id i is interner[i + 1]
    ret,                  \* what parse() returned, or that it is still running
    last,                 \* the handler the latest loop iteration dispatched to
    calls,                \* history: the calls made once the first parse returned
    linkbase,             \* a LinkbaseProcessor: its HashMaps of links
    cache                 \* a LockFreeCache: its map and its capacity

vars ==
    <<data, pos, avx2, in_xbrl_root, current_tuple_stack, document, interner, ret, last,
      calls, linkbase, cache>>

\* Option<u8>::None, what peek() gives at the end of the buffer
None == "None"

\* Option<T> for every other T: the empty sequence, or the value alone
NoneOpt == <<>>

Some(v) == <<v>>

is_some(o) == o # <<>>

unwrap(o) == o[1]

unwrap_or(o, default) == IF o # <<>> THEN o[1] ELSE default

Min(a, b) == IF a <= b THEN a ELSE b

----------------------------------------------------------------------------
(* Strings as byte sequences *)

starts_with(s, prefix) ==
    /\ Len(s) >= Len(prefix)
    /\ SubSeq(s, 1, Len(prefix)) = prefix

ends_with(s, suffix) ==
    /\ Len(s) >= Len(suffix)
    /\ SubSeq(s, Len(s) - Len(suffix) + 1, Len(s)) = suffix

contains(s, ch) == \E i \in 1..Len(s) : s[i] = ch

\* str::find(ch): 0-based index of the first occurrence
find(s, ch) ==
    IF contains(s, ch)
    THEN Some((CHOOSE i \in 1..Len(s) : s[i] = ch /\ \A j \in 1..(i - 1) : s[j] # ch) - 1)
    ELSE NoneOpt

\* str::find(pattern): 0-based index of the first occurrence
find_str(s, pattern) ==
    LET first(hits) ==
            IF hits = {} THEN NoneOpt
            ELSE Some(CHOOSE i \in hits : \A j \in hits : i <= j)
    IN  first({i \in 0..(Len(s) - Len(pattern)) :
                  SubSeq(s, i + 1, i + Len(pattern)) = pattern})

WHITESPACE == {" ", "\t", "\n", "\r"}

RECURSIVE trim_start(_)
trim_start(s) ==
    IF s # <<>> /\ s[1] \in WHITESPACE THEN trim_start(Tail(s)) ELSE s

RECURSIVE trim_end(_)
trim_end(s) ==
    IF s # <<>> /\ s[Len(s)] \in WHITESPACE
    THEN trim_end(SubSeq(s, 1, Len(s) - 1))
    ELSE s

\* str::trim
trim(s) == trim_end(trim_start(s))

----------------------------------------------------------------------------
(* simd.rs: the scanner *)

VECTOR_WIDTH == 32

\* the scalar loop of skip_whitespace
RECURSIVE skip_whitespace_scalar(_, _)
skip_whitespace_scalar(d, p) ==
    IF p < Len(d) /\ d[p + 1] \in WHITESPACE
    THEN skip_whitespace_scalar(d, p + 1)
    ELSE p

\* one 32-byte block: the index of the first clear bit of the whitespace mask,
\* or VECTOR_WIDTH when the mask is all ones
RECURSIVE first_non_whitespace_in_block(_, _, _)
first_non_whitespace_in_block(d, p, i) ==
    IF i = VECTOR_WIDTH THEN VECTOR_WIDTH
    ELSE IF d[p + i + 1] \notin WHITESPACE THEN i
    ELSE first_non_whitespace_in_block(d, p, i + 1)

RECURSIVE skip_whitespace_avx2(_, _)
\* the slip of leaving out the scalar loop after the last whole block
skip_whitespace_avx2_whole_blocks(d, p) ==
    IF p + VECTOR_WIDTH <= Len(d)
    THEN LET masked(i) == IF i < VECTOR_WIDTH THEN p + i
                          ELSE skip_whitespace_avx2(d, p + VECTOR_WIDTH)
         IN  masked(first_non_whitespace_in_block(d, p, 0))
    ELSE p

skip_whitespace_avx2(d, p) ==
    IF p + VECTOR_WIDTH <= Len(d)
    THEN LET masked(i) == IF i < VECTOR_WIDTH THEN p + i
                          ELSE skip_whitespace_avx2(d, p + VECTOR_WIDTH)
         IN  masked(first_non_whitespace_in_block(d, p, 0))
    ELSE skip_whitespace_scalar(d, p)

skip_whitespace_fn(d, p, has_avx2) ==
    IF has_avx2 /\ Len(d) - p >= VECTOR_WIDTH
    THEN skip_whitespace_avx2(d, p)
    ELSE skip_whitespace_scalar(d, p)

\* the smallest of a set of indices, or otherwise when the set is empty
first_index(hits, otherwise) ==
    IF hits = {} THEN otherwise ELSE Some(CHOOSE i \in hits : \A j \in hits : i <= j)

\* the indices from..to at which the pattern occurs whole in the haystack
pattern_at(haystack, pattern, from, to) ==
    {i \in from..to :
        /\ i + Len(pattern) <= Len(haystack)
        /\ SubSeq(haystack, i + 1, i + Len(pattern)) = pattern}

\* the scalar loop after the last whole block
find_pattern_tail(haystack, pattern, i) ==
    first_index(pattern_at(haystack, pattern, i, Len(haystack) - Len(pattern)), NoneOpt)

\* the slip of looking only at matches that lie within one block
RECURSIVE find_pattern_avx2_blocks(_, _, _)
find_pattern_avx2_blocks_within(haystack, pattern, i) ==
    IF i + VECTOR_WIDTH <= Len(haystack)
    THEN first_index(pattern_at(haystack, pattern, i, i + VECTOR_WIDTH - Len(pattern)),
                     find_pattern_avx2_blocks(haystack, pattern, i + VECTOR_WIDTH))
    ELSE find_pattern_tail(haystack, pattern, i)

\* one 32-byte block per pass: the set bits of the first-byte mask are tried
\* in ascending order, and the first whole match is returned
find_pattern_avx2_blocks(haystack, pattern, i) ==
    IF i + VECTOR_WIDTH <= Len(haystack)
    THEN first_index(pattern_at(haystack, pattern, i, i + VECTOR_WIDTH - 1),
                     find_pattern_avx2_blocks(haystack, pattern, i + VECTOR_WIDTH))
    ELSE find_pattern_tail(haystack, pattern, i)

find_pattern_avx2(haystack, pattern) ==
    IF pattern = <<>> \/ Len(haystack) < Len(pattern) THEN NoneOpt
    ELSE find_pattern_avx2_blocks(haystack, pattern, 0)

\* haystack.windows(pattern.len()).position(..), for a pattern that is not
\* empty (windows(0) panics)
find_pattern_scalar(haystack, pattern) ==
    first_index(pattern_at(haystack, pattern, 0, Len(haystack) - Len(pattern)), NoneOpt)

find_pattern_fn(haystack, pattern, has_avx2) ==
    IF has_avx2 /\ Len(haystack) >= VECTOR_WIDTH
    THEN find_pattern_avx2(haystack, pattern)
    ELSE find_pattern_scalar(haystack, pattern)

\* Option::map(|i| self.pos + i)
map_add(found, p) == IF is_some(found) THEN Some(p + unwrap(found)) ELSE NoneOpt

\* memchr
memchr(byte, haystack) == find(haystack, byte)

\* SimdScanner methods, on the parser's buffer
skip_whitespace(p) == skip_whitespace_fn(data, p, avx2)

\* the slip of advancing without the clamp to the buffer length
advance_unclamped(p, n) == p + n

advance(p, n) == Min(p + n, Len(data))

peek(p) == IF p < Len(data) THEN data[p + 1] ELSE None

is_eof(p) == p >= Len(data)

\* &self.data[self.pos..]
remaining(p) == SubSeq(data, p + 1, Len(data))

\* SimdScanner::find_next and SimdScanner::find_pattern
find_next(p, byte) == map_add(memchr(byte, remaining(p)), p)

find_pattern(p, pattern) == map_add(find_pattern_fn(remaining(p), pattern, avx2), p)

\* &data[from..to]
slice(from, to) == SubSeq(data, from + 1, to)

\* peek_ahead(n) == Some(pattern), for a pattern of n bytes
peek_ahead_is(p, pattern) ==
    /\ p + Len(pattern) <= Len(data)
    /\ slice(p, p + Len(pattern)) = pattern

\* the loop `while let Some(ch) = peek() { if ch in stop { break } advance(1) }`
\* that most readers are built from: the first position at or after p that
\* holds a byte of stop, or the buffer length
RECURSIVE scan_until(_, _)
scan_until(p, stop) ==
    IF p < Len(data) /\ data[p + 1] \notin stop
    THEN scan_until(p + 1, stop)
    ELSE p

----------------------------------------------------------------------------
(* Result<T>: ok with the cursor after the call and a value, or an error *)

Ok(p, v) == [ok |-> TRUE, pos |-> p, val |-> v, err |-> None]

Err(kind) == [ok |-> FALSE, pos |-> 0, val |-> None, err |-> kind]

----------------------------------------------------------------------------
(* parser_base.rs *)

read_tag_name(p) ==
    LET named(end) == IF end = p THEN Err("Parse") ELSE Ok(end, slice(p, end))
    IN  named(scan_until(p, {" ", ">", "/", "\t", "\n", "\r"}))

\* one pass of the loop per attribute; the stages of a pass, last one first
RECURSIVE parse_attributes_loop(_, _)
parse_attributes_loop(p0, attrs) ==
    LET \* the quoted value, from the opening quote at p3
        value_of(name, p3, quote) ==
            IF quote = None THEN Err("Parse")
            ELSE IF quote \notin {"\"", "'"} THEN Err("Parse")
            ELSE LET closed(value_end) ==
                         parse_attributes_loop(advance(value_end, 1),
                             Append(attrs, <<name, slice(advance(p3, 1), value_end)>>))
                 IN  closed(scan_until(advance(p3, 1), {quote}))
        \* the '=' after the name
        equals(name_start, name_end, p2) ==
            IF name_end = name_start THEN Ok(name_start, attrs)
            ELSE IF peek(p2) # "=" THEN parse_attributes_loop(p2, attrs)
            ELSE LET quoted(p3) == value_of(slice(name_start, name_end), p3, peek(p3))
                 IN  quoted(skip_whitespace(advance(p2, 1)))
        \* the attribute name
        name_from(name_start) ==
            LET named(name_end) == equals(name_start, name_end, skip_whitespace(name_end))
            IN  named(scan_until(name_start, {"=", " ", ">", "/"}))
        \* the match on peek()
        matched(p1, c1) ==
            IF c1 = ">" THEN Ok(p1, attrs)
            ELSE IF c1 = None THEN Err("Parse")
            ELSE IF c1 = "/" /\ peek(advance(p1, 1)) = ">" THEN Ok(advance(p1, 1), attrs)
            ELSE name_from(IF c1 = "/" THEN advance(p1, 1) ELSE p1)
        pass(p1) == matched(p1, peek(p1))
    IN  pass(skip_whitespace(p0))

\* the slip of ending the attribute list where the input ends
parse_attributes_lenient(p) ==
    LET ended(r) == IF r.ok THEN r ELSE Ok(Len(data), <<>>)
    IN  ended(parse_attributes_loop(p, <<>>))

parse_attributes(p) == parse_attributes_loop(p, <<>>)

\* attrs.iter().find(|(n, _)| *n == name).map(|(_, v)| v)
attr_find(attrs, name) ==
    LET hit(i) == attrs[i][1] = name
    IN  IF \E i \in 1..Len(attrs) : hit(i)
        THEN Some(attrs[CHOOSE i \in 1..Len(attrs) :
                            hit(i) /\ \A j \in 1..(i - 1) : ~hit(j)][2])
        ELSE NoneOpt

\* attrs.iter().find(|(n, _)| n.ends_with(suffix) || alt(n)).map(|(_, v)| v)
attr_find_suffix(attrs, suffix, exact) ==
    LET hit(i) == ends_with(attrs[i][1], suffix) \/ attrs[i][1] \in exact
    IN  IF \E i \in 1..Len(attrs) : hit(i)
        THEN Some(attrs[CHOOSE i \in 1..Len(attrs) :
                            hit(i) /\ \A j \in 1..(i - 1) : ~hit(j)][2])
        ELSE NoneOpt

skip_to_tag_end(p) ==
    LET found(end) == IF is_eof(end) THEN Err("Parse") ELSE Ok(end + 1, None)
    IN  found(scan_until(p, {">"}))

read_text_content(p) ==
    LET found(end) == Ok(end, trim(slice(p, end)))
    IN  found(scan_until(p, {"<"}))

\* the tag-skipping loop inside skip_element_from_tag's nested-tag branch: it
\* runs to the tag's '>' and notes whether any '/' on the way is followed by '>'
RECURSIVE scan_nested_tag(_, _)
scan_nested_tag(p, is_self_closing) ==
    IF is_eof(p) THEN [pos |-> p, is_self_closing |-> is_self_closing]
    ELSE IF data[p + 1] = ">" THEN [pos |-> p + 1, is_self_closing |-> is_self_closing]
    ELSE scan_nested_tag(p + 1,
             is_self_closing \/ (data[p + 1] = "/" /\ p + 1 < Len(data) /\ data[p + 2] = ">"))

RECURSIVE skip_element_loop(_, _)
skip_element_loop(p0, depth) ==
    IF ~(depth > 0 /\ ~is_eof(p0)) THEN p0
    ELSE LET \* past a nested opening tag
             opened(nested) ==
                 skip_element_loop(nested.pos,
                     IF nested.is_self_closing THEN depth ELSE depth + 1)
             \* p1 is just past the '<' at lt
             tag(lt, p1, c1) ==
                 IF is_eof(lt) THEN lt
                 ELSE IF c1 # "/" /\ c1 # "!" /\ c1 # "?"
                      THEN opened(scan_nested_tag(p1, FALSE))
                 ELSE skip_element_loop(advance(scan_until(p1, {">"}), 1),
                          IF c1 = "/" THEN depth - 1 ELSE depth)
             found(lt) == tag(lt, advance(lt, 1), peek(advance(lt, 1)))
         IN  found(scan_until(p0, {"<"}))

skip_element_from_tag(p) ==
    LET skipped(r) ==
            IF ~r.ok THEN r
            ELSE IF r.pos >= 2 /\ data[r.pos - 1] = "/" THEN Ok(r.pos, None)
            ELSE Ok(skip_element_loop(r.pos, 1), None)
    IN  skipped(skip_to_tag_end(p))

RECURSIVE skip_processing_instruction(_)
skip_processing_instruction(p) ==
    IF is_eof(p) THEN Err("Parse")
    ELSE IF peek(p) = "?"
         THEN IF peek(advance(p, 1)) = ">" THEN Ok(advance(p, 2), None)
              ELSE skip_processing_instruction(advance(p, 1))
    ELSE skip_processing_instruction(advance(p, 1))

RECURSIVE skip_comment(_)
skip_comment(p) ==
    IF is_eof(p) THEN Err("Parse")
    ELSE IF peek(p) = "-"
         THEN IF peek(advance(p, 1)) = "-"
              THEN IF peek(advance(p, 2)) = ">" THEN Ok(advance(p, 3), None)
                   ELSE skip_comment(advance(p, 2))
              ELSE skip_comment(advance(p, 1))
    ELSE skip_comment(advance(p, 1))

----------------------------------------------------------------------------
(* The string literals of the source, as byte sequences *)

lit ==
  [
    id |-> <<"i", "d">>,
    contextRef |-> <<"c", "o", "n", "t", "e", "x", "t", "R", "e", "f">>,
    unitRef |-> <<"u", "n", "i", "t", "R", "e", "f">>,
    decimals |-> <<"d", "e", "c", "i", "m", "a", "l", "s">>,
    precision |-> <<"p", "r", "e", "c", "i", "s", "i", "o", "n">>,
    nilReason |-> <<"n", "i", "l", "R", "e", "a", "s", "o", "n">>,
    scheme |-> <<"s", "c", "h", "e", "m", "e">>,
    dimension |-> <<"d", "i", "m", "e", "n", "s", "i", "o", "n">>,
    xbrl |-> <<"x", "b", "r", "l">>,
    context |-> <<"c", "o", "n", "t", "e", "x", "t">>,
    unit |-> <<"u", "n", "i", "t">>,
    schemaRef |-> <<"s", "c", "h", "e", "m", "a", "R", "e", "f">>,
    footnoteLink |-> <<"f", "o", "o", "t", "n", "o", "t", "e", "L", "i", "n", "k">>,
    entity |-> <<"e", "n", "t", "i", "t", "y">>,
    period |-> <<"p", "e", "r", "i", "o", "d">>,
    scenario |-> <<"s", "c", "e", "n", "a", "r", "i", "o">>,
    segment |-> <<"s", "e", "g", "m", "e", "n", "t">>,
    identifier |-> <<"i", "d", "e", "n", "t", "i", "f", "i", "e", "r">>,
    explicitMember |-> <<"e", "x", "p", "l", "i", "c", "i", "t", "M", "e", "m", "b", "e", "r">>,
    typedMember |-> <<"t", "y", "p", "e", "d", "M", "e", "m", "b", "e", "r">>,
    instant |-> <<"i", "n", "s", "t", "a", "n", "t">>,
    startDate |-> <<"s", "t", "a", "r", "t", "D", "a", "t", "e">>,
    endDate |-> <<"e", "n", "d", "D", "a", "t", "e">>,
    forever |-> <<"f", "o", "r", "e", "v", "e", "r">>,
    measure |-> <<"m", "e", "a", "s", "u", "r", "e">>,
    divide |-> <<"d", "i", "v", "i", "d", "e">>,
    unitNumerator |-> <<"u", "n", "i", "t", "N", "u", "m", "e", "r", "a", "t", "o", "r">>,
    unitDenominator |-> <<"u", "n", "i", "t", "D", "e", "n", "o", "m", "i", "n", "a", "t", "o", "r">>,
    numerator |-> <<"n", "u", "m", "e", "r", "a", "t", "o", "r">>,
    denominator |-> <<"d", "e", "n", "o", "m", "i", "n", "a", "t", "o", "r">>,
    footnote |-> <<"f", "o", "o", "t", "n", "o", "t", "e">>,
    footnoteArc |-> <<"f", "o", "o", "t", "n", "o", "t", "e", "A", "r", "c">>,
    role |-> <<"r", "o", "l", "e">>,
    label |-> <<"l", "a", "b", "e", "l">>,
    lang |-> <<"l", "a", "n", "g">>,
    from |-> <<"f", "r", "o", "m">>,
    to |-> <<"t", "o">>,
    href |-> <<"h", "r", "e", "f">>,
    xmlns |-> <<"x", "m", "l", "n", "s">>,
    true |-> <<"t", "r", "u", "e">>,
    false |-> <<"f", "a", "l", "s", "e">>,
    xsi_nil |-> <<"x", "s", "i", ":", "n", "i", "l">>,
    one |-> <<"1">>,
    c_xbrl |-> <<":", "x", "b", "r", "l">>,
    c_context |-> <<":", "c", "o", "n", "t", "e", "x", "t">>,
    c_unit |-> <<":", "u", "n", "i", "t">>,
    c_schemaRef |-> <<":", "s", "c", "h", "e", "m", "a", "R", "e", "f">>,
    c_footnoteLink |-> <<":", "f", "o", "o", "t", "n", "o", "t", "e", "L", "i", "n", "k">>,
    link_ |-> <<"l", "i", "n", "k", ":">>,
    xbrldi_ |-> <<"x", "b", "r", "l", "d", "i", ":">>,
    xbrli_ |-> <<"x", "b", "r", "l", "i", ":">>,
    comment_open |-> <<"!", "-", "-">>,
    cdata_bang |-> <<"!", "[", "C", "D", "A", "T", "A", "[">>,
    cdata_open |-> <<"<", "!", "[", "C", "D", "A", "T", "A", "[">>,
    cdata_close |-> <<"]", "]", ">">>,
    close_open |-> <<"<", "/">>,
    amp |-> <<"&", "a", "m", "p", ";">>,
    lt |-> <<"&", "l", "t", ";">>,
    gt |-> <<"&", "g", "t", ";">>,
    quot |-> <<"&", "q", "u", "o", "t", ";">>,
    presentationLink |-> <<"p", "r", "e", "s", "e", "n", "t", "a", "t", "i", "o", "n", "L", "i", "n", "k">>,
    presentationArc |-> <<"<", "l", "i", "n", "k", ":", "p", "r", "e", "s", "e", "n", "t", "a", "t", "i", "o", "n", "A", "r", "c">>,
    calculationLink |-> <<"c", "a", "l", "c", "u", "l", "a", "t", "i", "o", "n", "L", "i", "n", "k">>,
    calculationArc |-> <<"<", "l", "i", "n", "k", ":", "c", "a", "l", "c", "u", "l", "a", "t", "i", "o", "n", "A", "r", "c">>,
    definitionLink |-> <<"d", "e", "f", "i", "n", "i", "t", "i", "o", "n", "L", "i", "n", "k">>,
    referenceLink |-> <<"r", "e", "f", "e", "r", "e", "n", "c", "e", "L", "i", "n", "k">>,
    labelLink |-> <<"l", "a", "b", "e", "l", "L", "i", "n", "k">>,
    label_open |-> <<"<", "l", "i", "n", "k", ":", "l", "a", "b", "e", "l">>,
    label_close |-> <<"<", "/", "l", "i", "n", "k", ":", "l", "a", "b", "e", "l", ">">>,
    slash_gt |-> <<"/", ">">>,
    xlink_from |-> <<"x", "l", "i", "n", "k", ":", "f", "r", "o", "m", "=", "\"">>,
    xlink_to |-> <<"x", "l", "i", "n", "k", ":", "t", "o", "=", "\"">>,
    order_eq |-> <<"o", "r", "d", "e", "r", "=", "\"">>,
    priority_eq |-> <<"p", "r", "i", "o", "r", "i", "t", "y", "=", "\"">>,
    use_eq |-> <<"u", "s", "e", "=", "\"">>,
    weight_eq |-> <<"w", "e", "i", "g", "h", "t", "=", "\"">>,
    xlink_label |-> <<"x", "l", "i", "n", "k", ":", "l", "a", "b", "e", "l", "=", "\"">>,
    xlink_role |-> <<"x", "l", "i", "n", "k", ":", "r", "o", "l", "e", "=", "\"">>,
    xml_lang |-> <<"x", "m", "l", ":", "l", "a", "n", "g", "=", "\"">>,
    en |-> <<"e", "n">>,
    apos |-> <<"&", "a", "p", "o", "s", ";">>,
    num39 |-> <<"&", "#", "3", "9", ";">>
  ]

----------------------------------------------------------------------------
(* parser.rs: helper methods for reading content *)

\* str::replace(from, to), left to right, non-overlapping
RECURSIVE replace(_, _, _)
replace(s, from, to) ==
    LET found(at) ==
            IF is_some(at)
            THEN SubSeq(s, 1, unwrap(at)) \o to
                 \o replace(SubSeq(s, unwrap(at) + Len(from) + 1, Len(s)), from, to)
            ELSE s
    IN  found(find_str(s, from))

decode_entities(text) ==
    replace(replace(replace(replace(replace(replace(text,
        lit.amp, <<"&">>),
        lit.lt, <<"<">>),
        lit.gt, <<">">>),
        lit.quot, <<"\"">>),
        lit.apos, <<"'">>),
        lit.num39, <<"'">>)

\* the inner loop of both CDATA readers: the position of the first "]]>" at or
\* after p, or the buffer length when the section is not terminated
RECURSIVE scan_cdata_end(_)
scan_cdata_end(p) ==
    IF is_eof(p) THEN p
    ELSE IF peek_ahead_is(p, lit.cdata_close) THEN p
    ELSE scan_cdata_end(p + 1)

\* `r?` and the rest of the function: an error of r is the function's error
and_then(r, rest(_)) == IF r.ok THEN rest(r) ELSE r
\* a CDATA section opening at p: the cursor after it, and the content with the
\* section's text appended (nothing is appended when "]]>" is missing)
read_cdata(p, content) ==
    LET closed(start, end) ==
            IF is_eof(end) THEN [pos |-> end, content |-> content]
            ELSE [pos |-> advance(end, 3), content |-> content \o slice(start, end)]
    IN  closed(advance(p, 9), scan_cdata_end(advance(p, 9)))

RECURSIVE read_text_content_with_cdata_loop(_, _)
read_text_content_with_cdata_loop(p, content) ==
    IF is_eof(p) THEN Ok(p, content)
    ELSE IF peek(p) = "<"
         THEN IF peek_ahead_is(p, lit.cdata_open)
              THEN LET read(cdata) ==
                           read_text_content_with_cdata_loop(cdata.pos, cdata.content)
                   IN  read(read_cdata(p, content))
              ELSE Ok(p, content)
    ELSE LET text(end) == read_text_content_with_cdata_loop(end, content \o slice(p, end))
         IN  text(scan_until(p, {"<"}))

read_text_content_with_cdata(p) ==
    and_then(read_text_content_with_cdata_loop(p, <<>>),
             LAMBDA r : Ok(r.pos, decode_entities(r.val)))

\* depth starts at 1 and is only ever decremented, so the loop ends at the
\* first closing tag that carries the name, or at the end of the buffer.  A
\* run of regular characters, which the loop pushes one by one, is one token.
RECURSIVE read_mixed_content_loop(_, _, _)
read_mixed_content_loop(p, tag_name, content) ==
    LET next(token) == read_mixed_content_loop(token.pos, tag_name, token.content)
        lt == [pos |-> advance(p, 1), content |-> Append(content, "<")]
        run(end) == [pos |-> end, content |-> content \o slice(p, end)]
        closing(tag) ==
            IF tag.val = tag_name \/ ends_with(tag.val, <<":">> \o tag_name)
            THEN Ok(p, content)
            ELSE next(lt)
    IN  IF is_eof(p) THEN Ok(p, content)
        ELSE IF peek(p) = "<" /\ peek_ahead_is(p, lit.close_open)
             THEN and_then(read_tag_name(advance(p, 2)), closing)
        ELSE next(IF peek(p) # "<" THEN run(scan_until(p, {"<"}))
                  ELSE IF peek_ahead_is(p, lit.cdata_open) THEN read_cdata(p, content)
                  ELSE lt)

read_mixed_content_until_closing(p, tag_name) ==
    and_then(read_mixed_content_loop(p, tag_name, <<>>),
             LAMBDA r : Ok(r.pos, decode_entities(r.val)))

read_xml_content_until_closing(p, tag_name) ==
    read_mixed_content_until_closing(p, tag_name)

peek_tag_name(p) ==
    LET at(p1) ==
            IF peek(p1) = "<"
            THEN and_then(read_tag_name(advance(p1, 1)), LAMBDA tag : Ok(p, tag.val))
            ELSE Err("Parse")
    IN  at(skip_whitespace(p))

peek_attributes(p) ==
    and_then(parse_attributes(p), LAMBDA attrs : Ok(p, attrs.val))

check_self_closing(p) ==
    IF p >= 2 THEN data[p - 1] = "/" /\ data[p] = ">" ELSE FALSE

\* on a mismatch the cursor stays where the attempt left it
skip_closing_tag(p, tag_name) ==
    LET closing(tag) ==
            IF \/ tag.val = tag_name
               \/ ends_with(tag.val, tag_name)
               \/ ends_with(tag_name, tag.val)
            THEN skip_to_tag_end(tag.pos)
            ELSE Ok(tag.pos, None)
        at(p1) ==
            IF peek(p1) # "<" THEN Ok(p1, None)
            ELSE IF peek(advance(p1, 1)) # "/" THEN Ok(advance(p1, 1), None)
            ELSE and_then(read_tag_name(advance(p1, 2)), closing)
    IN  at(skip_whitespace(p))

skip_doctype(p) ==
    Ok(advance(scan_until(p, {">"}), 1), None)

\* the slip of defaulting a missing id to the empty string
required_id_or_default(attrs) == Ok(0, unwrap_or(attr_find(attrs, lit.id), <<>>))

\* attrs.iter().find(|(n, _)| *n == "id").map(..).ok_or_else(|| Error::Parse(..))?
\* in parse_context and parse_unit: an element without an id is an error
required_id(attrs) ==
    LET found(id) == IF is_some(id) THEN Ok(0, unwrap(id)) ELSE Err("Parse")
    IN  found(attr_find(attrs, lit.id))

----------------------------------------------------------------------------
(* parser.rs: units *)

parse_measure(text) ==
    LET split(colon_pos) ==
            IF is_some(colon_pos)
            THEN [namespace |-> SubSeq(text, 1, unwrap(colon_pos)),
                  name |-> SubSeq(text, unwrap(colon_pos) + 2, Len(text))]
            ELSE [namespace |-> <<>>, name |-> text]
    IN  split(find(text, ":"))

RECURSIVE parse_unit_measures_loop(_, _)
parse_unit_measures_loop(p, measures) ==
    LET \* a measure child, from the end of its opening tag
        measure(open_end) ==
            LET text(measure_text) ==
                    and_then(skip_closing_tag(measure_text.pos, lit.measure),
                        LAMBDA closed :
                            parse_unit_measures_loop(closed.pos,
                                Append(measures, parse_measure(measure_text.val))))
            IN  text(read_text_content(open_end.pos))
        child(p1, tag) ==
            IF ends_with(tag.val, lit.measure)
            THEN and_then(skip_to_tag_end(tag.pos), measure)
            ELSE Ok(p1, measures)
        at(p1) ==
            IF peek(p1) # "<" THEN Ok(p1, measures)
            ELSE IF peek(advance(p1, 1)) = "/" THEN Ok(p1, measures)
            ELSE and_then(read_tag_name(advance(p1, 1)), LAMBDA tag : child(p1, tag))
    IN  at(skip_whitespace(p))

parse_unit_measures(p) == parse_unit_measures_loop(p, <<>>)

RECURSIVE parse_unit_divide_loop(_, _, _)
parse_unit_divide_loop(p, numerator, denominator) ==
    LET done(at) == Ok(at, [kind |-> "Divide", numerator |-> numerator,
                                        denominator |-> denominator])
        \* a unitNumerator or unitDenominator child: its measures
        operand(tag, name) ==
            and_then(skip_to_tag_end(tag.pos), LAMBDA open_end :
            and_then(parse_unit_measures(open_end.pos), LAMBDA measures :
            and_then(skip_closing_tag(measures.pos, name), LAMBDA closed :
                Ok(closed.pos, measures.val))))
        child(tag) ==
            IF ends_with(tag.val, lit.unitNumerator)
            THEN and_then(operand(tag, lit.unitNumerator), LAMBDA r :
                     parse_unit_divide_loop(r.pos, r.val, denominator))
            ELSE IF ends_with(tag.val, lit.unitDenominator)
            THEN and_then(operand(tag, lit.unitDenominator), LAMBDA r :
                     parse_unit_divide_loop(r.pos, numerator, r.val))
            ELSE and_then(skip_element_from_tag(tag.pos), LAMBDA skipped :
                     parse_unit_divide_loop(skipped.pos, numerator, denominator))
        closing(p1, tag) ==
            IF ends_with(tag.val, lit.divide)
            THEN and_then(skip_to_tag_end(tag.pos), LAMBDA closing_end : done(closing_end.pos))
            ELSE done(p1)
        at(p1) ==
            IF peek(p1) # "<" THEN done(p1)
            ELSE IF peek(advance(p1, 1)) = "/"
                 THEN and_then(read_tag_name(advance(p1, 2)), LAMBDA tag : closing(p1, tag))
            ELSE and_then(read_tag_name(advance(p1, 1)), child)
    IN  at(skip_whitespace(p))

parse_unit_divide(p) ==
    and_then(parse_attributes(p), LAMBDA attrs :
    and_then(skip_to_tag_end(attrs.pos), LAMBDA open_end :
        parse_unit_divide_loop(open_end.pos, <<>>, <<>>)))

\* the measure branch of parse_unit's loop: what a measure child makes of the
\* unit_type found so far
unit_type_after_measure(unit_type, measure) ==
    IF ~is_some(unit_type) THEN Some([kind |-> "Simple", measures |-> <<measure>>])
    ELSE IF unwrap(unit_type).kind = "Simple"
         THEN Some([unwrap(unit_type) EXCEPT !.measures = Append(@, measure)])
    ELSE unit_type

\* the divide branch of parse_unit's loop
unit_type_after_divide(unit_type, divide) == Some(divide)

RECURSIVE parse_unit_loop(_, _)
parse_unit_loop(p, unit_type) ==
    LET \* a measure child, from the end of its opening tag
        measure(open_end) ==
            LET text(measure_text) ==
                    and_then(skip_closing_tag(measure_text.pos, lit.measure),
                        LAMBDA closed :
                            parse_unit_loop(closed.pos,
                                unit_type_after_measure(unit_type,
                                    parse_measure(measure_text.val))))
            IN  text(read_text_content(open_end.pos))
        child(tag) ==
            IF ends_with(tag.val, lit.measure)
            THEN and_then(skip_to_tag_end(tag.pos), measure)
            ELSE IF ends_with(tag.val, lit.divide)
            THEN and_then(parse_unit_divide(tag.pos), LAMBDA divide :
                     parse_unit_loop(divide.pos, unit_type_after_divide(unit_type, divide.val)))
            ELSE and_then(skip_element_from_tag(tag.pos), LAMBDA skipped :
                     parse_unit_loop(skipped.pos, unit_type))
        closing(p1, tag) ==
            IF ends_with(tag.val, lit.unit)
            THEN and_then(skip_to_tag_end(tag.pos),
                     LAMBDA closing_end : Ok(closing_end.pos, unit_type))
            ELSE Ok(p1, unit_type)
        at(p1) ==
            IF peek(p1) # "<" THEN Ok(p1, unit_type)
            ELSE IF peek(advance(p1, 1)) = "/"
                 THEN and_then(read_tag_name(advance(p1, 2)), LAMBDA tag : closing(p1, tag))
            ELSE and_then(read_tag_name(advance(p1, 1)), child)
    IN  at(skip_whitespace(p))

\* the value is the unit pushed to document.units, if one is
parse_unit(p) ==
    LET body(id, r) ==
            IF is_some(r.val)
            THEN Ok(r.pos, Some([id |-> id, unit_type |-> unwrap(r.val)]))
            ELSE Ok(r.pos, NoneOpt)
    IN  and_then(parse_attributes(p), LAMBDA attrs :
        and_then(required_id(attrs.val), LAMBDA id :
        and_then(skip_to_tag_end(attrs.pos), LAMBDA open_end :
        and_then(parse_unit_loop(open_end.pos, NoneOpt), LAMBDA r : body(id.val, r)))))

----------------------------------------------------------------------------
(* parser.rs: contexts *)

\* the loop shared, statement for statement, by parse_segment and
\* parse_scenario; name is "segment" or "scenario"
RECURSIVE parse_members_loop(_, _, _, _)
parse_members_loop(p, name, explicit_members, typed_members) ==
    LET done(at) == Ok(at, [explicit_members |-> explicit_members,
                            typed_members |-> typed_members])
        again(at) == parse_members_loop(at, name, explicit_members, typed_members)
        \* an explicitMember child, from the end of its opening tag
        explicit(dimension, member) ==
            and_then(skip_closing_tag(member.pos, lit.explicitMember), LAMBDA closed :
                parse_members_loop(closed.pos, name,
                    Append(explicit_members, [dimension |-> dimension, member |-> member.val]),
                    typed_members))
        \* a typedMember child, from the end of its opening tag
        typed(dimension, open_end) ==
            and_then(read_xml_content_until_closing(open_end.pos, lit.typedMember),
                LAMBDA value :
            and_then(skip_closing_tag(value.pos, lit.typedMember), LAMBDA closed :
                parse_members_loop(closed.pos, name, explicit_members,
                    Append(typed_members, [dimension |-> dimension, value |-> value.val]))))
        member(is_explicit, attrs) ==
            and_then(skip_to_tag_end(attrs.pos), LAMBDA open_end :
                IF is_explicit
                THEN explicit(unwrap_or(attr_find(attrs.val, lit.dimension), <<>>),
                              read_text_content(open_end.pos))
                ELSE typed(unwrap_or(attr_find(attrs.val, lit.dimension), <<>>), open_end))
        child(tag) ==
            IF ends_with(tag.val, lit.explicitMember) \/ ends_with(tag.val, lit.typedMember)
            THEN and_then(parse_attributes(tag.pos),
                     LAMBDA attrs : member(ends_with(tag.val, lit.explicitMember), attrs))
            ELSE and_then(skip_element_from_tag(tag.pos), LAMBDA skipped : again(skipped.pos))
        closing(saved_pos, tag) ==
            IF ends_with(tag.val, name)
            THEN and_then(skip_to_tag_end(tag.pos), LAMBDA closing_end : done(closing_end.pos))
            ELSE done(saved_pos)
        at(saved_pos, p2) ==
            IF is_eof(saved_pos) THEN done(saved_pos)
            ELSE IF peek(p2) = "!" /\ peek_ahead_is(p2, lit.comment_open)
                 THEN and_then(skip_comment(p2), LAMBDA comment : again(comment.pos))
            ELSE IF peek(p2) = "/"
                 THEN and_then(read_tag_name(advance(p2, 1)),
                          LAMBDA tag : closing(saved_pos, tag))
            ELSE and_then(read_tag_name(p2), child)
        found(saved_pos) == at(saved_pos, advance(saved_pos, 1))
    IN  found(scan_until(skip_whitespace(p), {"<"}))

parse_segment(p) ==
    and_then(parse_attributes(p), LAMBDA attrs :
    and_then(skip_to_tag_end(attrs.pos), LAMBDA open_end :
        parse_members_loop(open_end.pos, lit.segment, <<>>, <<>>)))

parse_scenario(p) ==
    and_then(parse_attributes(p), LAMBDA attrs :
    and_then(skip_to_tag_end(attrs.pos), LAMBDA open_end :
        parse_members_loop(open_end.pos, lit.scenario, <<>>, <<>>)))

RECURSIVE parse_entity_loop(_, _)
parse_entity_loop(p, entity) ==
    LET \* an identifier child, from the end of its opening tag
        identifier(scheme, text) ==
            and_then(skip_closing_tag(text.pos, lit.identifier), LAMBDA closed :
                parse_entity_loop(closed.pos,
                    [entity EXCEPT !.identifier = text.val, !.scheme = scheme]))
        child(tag) ==
            IF ends_with(tag.val, lit.identifier)
            THEN and_then(parse_attributes(tag.pos), LAMBDA attrs :
                 and_then(skip_to_tag_end(attrs.pos), LAMBDA open_end :
                     identifier(unwrap_or(attr_find(attrs.val, lit.scheme), <<>>),
                                read_text_content(open_end.pos))))
            ELSE IF ends_with(tag.val, lit.segment)
            THEN and_then(parse_segment(tag.pos), LAMBDA segment :
                     parse_entity_loop(segment.pos,
                         [entity EXCEPT !.segment = Some(segment.val)]))
            ELSE and_then(skip_element_from_tag(tag.pos), LAMBDA skipped :
                     parse_entity_loop(skipped.pos, entity))
        closing(saved_pos, tag) ==
            IF ends_with(tag.val, lit.entity)
            THEN and_then(skip_to_tag_end(tag.pos),
                     LAMBDA closing_end : Ok(closing_end.pos, entity))
            ELSE Ok(saved_pos, entity)
        at(saved_pos, p2) ==
            IF is_eof(saved_pos) THEN Ok(saved_pos, entity)
            ELSE IF peek(p2) = "/"
                 THEN and_then(read_tag_name(advance(p2, 1)),
                          LAMBDA tag : closing(saved_pos, tag))
            ELSE and_then(read_tag_name(p2), child)
        found(saved_pos) == at(saved_pos, advance(saved_pos, 1))
    IN  found(scan_until(skip_whitespace(p), {"<"}))

parse_entity(p) ==
    and_then(parse_attributes(p), LAMBDA attrs :
    and_then(skip_to_tag_end(attrs.pos), LAMBDA open_end :
        parse_entity_loop(open_end.pos,
            [identifier |-> <<>>, scheme |-> <<>>, segment |-> NoneOpt])))

RECURSIVE parse_period_loop(_, _)
parse_period_loop(p, period) ==
    LET \* an instant, startDate or endDate child, from the end of its opening tag
        date(name, text) ==
            and_then(skip_closing_tag(text.pos, name), LAMBDA closed :
                parse_period_loop(closed.pos,
                    IF name = lit.instant THEN [period EXCEPT !.instant = Some(text.val)]
                    ELSE IF name = lit.startDate
                         THEN [period EXCEPT !.start_date = Some(text.val)]
                    ELSE [period EXCEPT !.end_date = Some(text.val)]))
        dated(name, tag) ==
            and_then(skip_to_tag_end(tag.pos),
                LAMBDA open_end : date(name, read_text_content(open_end.pos)))
        child(tag) ==
            IF \/ ends_with(tag.val, lit.instant)
               \/ ends_with(tag.val, lit.startDate)
               \/ ends_with(tag.val, lit.endDate)
            THEN dated(IF ends_with(tag.val, lit.instant) THEN lit.instant
                       ELSE IF ends_with(tag.val, lit.startDate) THEN lit.startDate
                       ELSE lit.endDate,
                       tag)
            ELSE and_then(skip_element_from_tag(tag.pos), LAMBDA skipped :
                     parse_period_loop(skipped.pos,
                         [period EXCEPT !.forever = @ \/ ends_with(tag.val, lit.forever)]))
        closing(p1, tag) ==
            IF ends_with(tag.val, lit.period)
            THEN and_then(skip_to_tag_end(tag.pos),
                     LAMBDA closing_end : Ok(closing_end.pos, period))
            ELSE Ok(p1, period)
        at(p1) ==
            IF peek(p1) # "<" THEN Ok(p1, period)
            ELSE IF peek(advance(p1, 1)) = "/"
                 THEN and_then(read_tag_name(advance(p1, 2)), LAMBDA tag : closing(p1, tag))
            ELSE and_then(read_tag_name(advance(p1, 1)), child)
    IN  at(skip_whitespace(p))

parse_period(p) ==
    and_then(parse_attributes(p), LAMBDA attrs :
    and_then(skip_to_tag_end(attrs.pos), LAMBDA open_end :
        parse_period_loop(open_end.pos,
            [instant |-> NoneOpt, start_date |-> NoneOpt,
             end_date |-> NoneOpt, forever |-> FALSE])))

\* parts: the entity, period and scenario found so far, each an Option
RECURSIVE parse_context_loop(_, _)
parse_context_loop(p, parts) ==
    LET child(tag) ==
            IF ends_with(tag.val, lit.entity)
            THEN and_then(parse_entity(tag.pos), LAMBDA entity :
                     parse_context_loop(entity.pos,
                         [parts EXCEPT !.entity = Some(entity.val)]))
            ELSE IF ends_with(tag.val, lit.period)
            THEN and_then(parse_period(tag.pos), LAMBDA period :
                     parse_context_loop(period.pos,
                         [parts EXCEPT !.period = Some(period.val)]))
            ELSE IF ends_with(tag.val, lit.scenario)
            THEN and_then(parse_scenario(tag.pos), LAMBDA scenario :
                     parse_context_loop(scenario.pos,
                         [parts EXCEPT !.scenario = Some(scenario.val)]))
            ELSE and_then(skip_element_from_tag(tag.pos), LAMBDA skipped :
                     parse_context_loop(skipped.pos, parts))
        closing(saved_pos, tag) ==
            IF ends_with(tag.val, lit.context)
            THEN and_then(skip_to_tag_end(tag.pos),
                     LAMBDA closing_end : Ok(closing_end.pos, parts))
            ELSE Ok(saved_pos, parts)
        at(saved_pos, p2) ==
            IF is_eof(saved_pos) THEN Ok(saved_pos, parts)
            ELSE IF peek(p2) = "/"
                 THEN and_then(read_tag_name(advance(p2, 1)),
                          LAMBDA tag : closing(saved_pos, tag))
            ELSE and_then(read_tag_name(p2), child)
        found(saved_pos) == at(saved_pos, advance(saved_pos, 1))
    IN  found(scan_until(skip_whitespace(p), {"<"}))

\* the slip of asking for the optional scenario too before the commit
context_is_committed_with_scenario(parts) ==
    is_some(parts.entity) /\ is_some(parts.period) /\ is_some(parts.scenario)

\* the commit test at the end of parse_context
context_is_committed(parts) == is_some(parts.entity) /\ is_some(parts.period)

\* the value is the context pushed to document.contexts, if one is
parse_context(p) ==
    LET body(id, r) ==
            IF context_is_committed(r.val)
            THEN Ok(r.pos, Some([id |-> id,
                                 entity |-> unwrap(r.val.entity),
                                 period |-> unwrap(r.val.period),
                                 scenario |-> r.val.scenario]))
            ELSE Ok(r.pos, NoneOpt)
    IN  and_then(parse_attributes(p), LAMBDA attrs :
        and_then(required_id(attrs.val), LAMBDA id :
        and_then(skip_to_tag_end(attrs.pos), LAMBDA open_end :
        and_then(parse_context_loop(open_end.pos,
                     [entity |-> NoneOpt, period |-> NoneOpt, scenario |-> NoneOpt]),
                 LAMBDA r : body(id.val, r)))))

----------------------------------------------------------------------------
(* str::parse for the number types parse_fact and parse_fact_value use *)

DIGITS == <<"0", "1", "2", "3", "4", "5", "6", "7", "8", "9">>

is_digit(ch) == \E i \in 1..10 : DIGITS[i] = ch

digit_value(ch) == (CHOOSE i \in 1..10 : DIGITS[i] = ch) - 1

\* the number of digits s begins with
RECURSIVE leading_digits(_)
leading_digits(s) ==
    IF s # <<>> /\ is_digit(s[1]) THEN 1 + leading_digits(Tail(s)) ELSE 0

RECURSIVE digits_value(_)
digits_value(s) ==
    IF s = <<>> THEN 0
    ELSE 10 * digits_value(SubSeq(s, 1, Len(s) - 1)) + digit_value(s[Len(s)])

\* the integer FromStr of core, before its range check: an optional sign
\* ('-' only for a signed type), then one digit or more
parse_int(s, is_signed) ==
    LET value(neg, digits) ==
            IF digits = <<>> \/ leading_digits(digits) # Len(digits) THEN NoneOpt
            ELSE LET signed(n) == Some(IF neg THEN 0 - n ELSE n)
                 IN  signed(digits_value(digits))
    IN  IF s # <<>> /\ (s[1] = "+" \/ (s[1] = "-" /\ is_signed))
        THEN value(s[1] = "-", Tail(s))
        ELSE value(FALSE, s)

in_range(o, min, max) ==
    IF is_some(o) /\ unwrap(o) >= min /\ unwrap(o) <= max THEN o ELSE NoneOpt

parse_i8(s) == in_range(parse_int(s, TRUE), -128, 127)

parse_u8(s) == in_range(parse_int(s, FALSE), 0, 255)

\* no text of the model is long enough to leave the i64 range
parse_i64(s) == parse_int(s, TRUE)

UPPER == <<"A", "E", "F", "I", "N", "T", "Y">>
LOWER == <<"a", "e", "f", "i", "n", "t", "y">>

\* u8::to_ascii_lowercase, on the letters that float parsing looks at
to_ascii_lowercase(ch) ==
    IF \E i \in 1..Len(UPPER) : UPPER[i] = ch
    THEN LOWER[CHOOSE i \in 1..Len(UPPER) : UPPER[i] = ch]
    ELSE ch

lowercase(s) == [i \in 1..Len(s) |-> to_ascii_lowercase(s[i])]

\* An f64 is modelled by the decimal it was parsed from, in lowest terms
\* (mant has no trailing zero; zero has exponent 0): the value stands for the
\* f64 nearest to neg * mant * 10^exp.  Equal model values are equal f64s.
RECURSIVE normal_f64(_, _, _)
normal_f64(neg, mant, exp) ==
    IF mant = 0 THEN [kind |-> "finite", neg |-> neg, mant |-> 0, exp |-> 0]
    ELSE IF mant % 10 = 0 THEN normal_f64(neg, mant \div 10, exp + 1)
    ELSE [kind |-> "finite", neg |-> neg, mant |-> mant, exp |-> exp]

RECURSIVE digit_count(_)
digit_count(n) == IF n < 10 THEN 1 ELSE 1 + digit_count(n \div 10)

\* f64::MAX is about 1.7977e308, the least positive f64 about 4.9e-324:
\* rounding to the f64 range: beyond f64::MAX is infinity, below the least
\* subnormal is zero.  At the decimal exponent of f64::MAX the leading digits
\* decide; the model's mantissas have at most five digits.
round_f64(v) ==
    LET ranged(e10, lead5) ==
            IF v.mant = 0 THEN v
            ELSE IF e10 > 308 \/ (e10 = 308 /\ lead5 > 17976)
                 THEN [kind |-> "inf", neg |-> v.neg, mant |-> 0, exp |-> 0]
            ELSE IF e10 < -324
                 THEN [kind |-> "finite", neg |-> v.neg, mant |-> 0, exp |-> 0]
            ELSE v
        counted(digits) ==
            ranged(digits + v.exp - 1,
                   IF digits = 1 THEN v.mant * 10000
                   ELSE IF digits = 2 THEN v.mant * 1000
                   ELSE IF digits = 3 THEN v.mant * 100
                   ELSE IF digits = 4 THEN v.mant * 10
                   ELSE v.mant)
    IN  counted(digit_count(v.mant))

\* Exp? at the end of a Number: the exponent, 0 when the text is empty
parse_exp(text) ==
    IF text = <<>> THEN Some(0)
    ELSE IF text[1] \notin {"e", "E"} THEN NoneOpt
    ELSE parse_int(Tail(text), TRUE)

\* Number ::= ( Digit+ | Digit+ '.' Digit* | Digit* '.' Digit+ ) Exp?
parse_number(neg, body) ==
    LET \* after_dot follows the integer digits and the '.', if there is one
        digits(int_len, after_dot, frac_len) ==
            LET scaled(exp) ==
                    IF is_some(exp) /\ int_len + frac_len >= 1
                    THEN Some(round_f64(normal_f64(neg,
                             digits_value(SubSeq(body, 1, int_len)
                                          \o SubSeq(after_dot, 1, frac_len)),
                             unwrap(exp) - frac_len)))
                    ELSE NoneOpt
            IN  scaled(parse_exp(SubSeq(after_dot, frac_len + 1, Len(after_dot))))
        dot(int_len, after_int, has_dot) ==
            digits(int_len,
                   IF has_dot THEN Tail(after_int) ELSE after_int,
                   IF has_dot THEN leading_digits(Tail(after_int)) ELSE 0)
        int(int_len, after_int) ==
            dot(int_len, after_int, after_int # <<>> /\ after_int[1] = ".")
        counted(int_len) == int(int_len, SubSeq(body, int_len + 1, Len(body)))
    IN  counted(leading_digits(body))

\* <f64 as FromStr>: Sign? ( Number | "inf" | "infinity" | "nan" ), letters
\* in any case, nothing before or after
parse_f64(s) ==
    LET worded(neg, number, word) ==
            IF is_some(number) THEN number
            ELSE IF word \in {<<"i", "n", "f">>, <<"i", "n", "f", "i", "n", "i", "t", "y">>}
                 THEN Some([kind |-> "inf", neg |-> neg, mant |-> 0, exp |-> 0])
            ELSE IF word = <<"n", "a", "n">>
                 THEN Some([kind |-> "nan", neg |-> neg, mant |-> 0, exp |-> 0])
            ELSE NoneOpt
        signed(neg, body) == worded(neg, parse_number(neg, body), lowercase(body))
        sign(has_sign) == signed(has_sign /\ s[1] = "-", IF has_sign THEN Tail(s) ELSE s)
    IN  sign(s # <<>> /\ s[1] \in {"+", "-"})

----------------------------------------------------------------------------
(* allocator.rs: the string interner *)

\* the slip of giving every call a new id
intern_string_always_new(strings, s) ==
    [strings |-> Append(strings, s), id |-> Len(strings)]

\* StringInterner::get_or_intern on the table strings: the symbol of s (its
\* 0-based index) and the table afterwards
intern_string(strings, s) ==
    IF \E i \in 1..Len(strings) : strings[i] = s
    THEN [id |-> (CHOOSE i \in 1..Len(strings) : strings[i] = s) - 1, strings |-> strings]
    ELSE [id |-> Len(strings), strings |-> Append(strings, s)]

\* the slip of reading the symbol as a 1-based index
get_interned_one_based(strings, id) ==
    IF id >= 1 /\ id <= Len(strings) THEN Some(strings[id]) ELSE NoneOpt

get_interned(strings, id) ==
    IF id >= 0 /\ id < Len(strings) THEN Some(strings[id + 1]) ELSE NoneOpt

----------------------------------------------------------------------------
(* parser.rs: value coercion *)

\* str::split_once('/')
split_once(s, ch) ==
    LET halves(at) ==
            IF is_some(at)
            THEN Some(<<SubSeq(s, 1, unwrap(at)), SubSeq(s, unwrap(at) + 2, Len(s))>>)
            ELSE NoneOpt
    IN  halves(find(s, ch))

\* the slip of testing the numerator alone
is_fraction_numerator_only(value) ==
    LET one(halves) == is_some(halves) /\ is_some(parse_f64(unwrap(halves)[1]))
    IN  /\ contains(value, "/")
        /\ ~contains(value, " ")
        /\ one(split_once(value, "/"))

\* the fraction test of parse_fact_value
is_fraction(value) ==
    LET both(halves) ==
            /\ is_some(halves)
            /\ \A i \in {1, 2} : is_some(parse_f64(unwrap(halves)[i]))
    IN  /\ contains(value, "/")
        /\ ~contains(value, " ")
        /\ both(split_once(value, "/"))

\* the slip of dropping the parentheses without writing the minus sign
cleaned_value_unsigned(value) ==
    IF starts_with(value, <<"(">>) /\ ends_with(value, <<")">>)
    THEN SubSeq(value, 2, Len(value) - 1)
    ELSE value

\* "Handle parentheses for negative numbers"
cleaned_value(value) ==
    IF starts_with(value, <<"(">>) /\ ends_with(value, <<")">>)
    THEN <<"-">> \o SubSeq(value, 2, Len(value) - 1)
    ELSE value

\* a value stored as interned text, of type value_type
interned_value(value_type, interned) ==
    [value_type |-> value_type, value |-> [string_id |-> interned.id],
     strings |-> interned.strings]

\* the trial order of parse_fact_value after the nil, empty and fraction tests
number_or_text(value, cleaned, strings) ==
    LET tried(decimal, integer) ==
            IF is_some(decimal)
            THEN [value_type |-> "Decimal", value |-> [decimal |-> unwrap(decimal)],
                  strings |-> strings]
            ELSE IF is_some(integer)
                 THEN [value_type |-> "Integer", value |-> [integer |-> unwrap(integer)],
                       strings |-> strings]
            ELSE IF value = lit.true \/ value = lit.false
                 THEN [value_type |-> "Boolean",
                       value |-> [boolean |-> IF value = lit.true THEN 1 ELSE 0],
                       strings |-> strings]
            ELSE interned_value("String", intern_string(strings, value))
    IN  tried(parse_f64(cleaned), parse_i64(cleaned))

\* the slip of testing for the empty text before the nil flag
parse_fact_value_empty_first(value, is_nil, strings) ==
    IF value = <<>>
    THEN [value_type |-> "String", value |-> [string_id |-> 0], strings |-> strings]
    ELSE IF is_nil
         THEN [value_type |-> "Nil", value |-> [integer |-> 0], strings |-> strings]
    ELSE IF is_fraction(value)
         THEN interned_value("Fraction", intern_string(strings, value))
    ELSE number_or_text(value, cleaned_value(value), strings)

\* parse_fact_value with the interner's table threaded through: the value
\* type, the FactValue and the table afterwards
parse_fact_value(value, is_nil, strings) ==
    IF is_nil
    THEN [value_type |-> "Nil", value |-> [integer |-> 0], strings |-> strings]
    ELSE IF value = <<>>
         THEN [value_type |-> "String", value |-> [string_id |-> 0], strings |-> strings]
    ELSE IF is_fraction(value)
         THEN interned_value("Fraction", intern_string(strings, value))
    ELSE number_or_text(value, cleaned_value(value), strings)

----------------------------------------------------------------------------
(* parser.rs: facts, tuples, footnotes, the root element *)

RECURSIVE parse_fraction_value_loop(_, _, _)
parse_fraction_value_loop(p, numerator, denominator) ==
    LET done(at) == Ok(at, numerator \o <<"/">> \o denominator)
        \* a numerator or denominator child, from the end of its opening tag
        part(name, text) ==
            and_then(skip_closing_tag(text.pos, name), LAMBDA closed :
                IF name = lit.numerator
                THEN parse_fraction_value_loop(closed.pos, text.val, denominator)
                ELSE parse_fraction_value_loop(closed.pos, numerator, text.val))
        child(tag) ==
            IF ends_with(tag.val, lit.numerator) \/ ends_with(tag.val, lit.denominator)
            THEN and_then(skip_to_tag_end(tag.pos), LAMBDA open_end :
                     part(IF ends_with(tag.val, lit.numerator)
                          THEN lit.numerator ELSE lit.denominator,
                          read_text_content(open_end.pos)))
            ELSE and_then(skip_element_from_tag(tag.pos), LAMBDA skipped :
                     parse_fraction_value_loop(skipped.pos, numerator, denominator))
        at(p1) ==
            IF peek(p1) # "<" THEN done(p1)
            ELSE IF peek(advance(p1, 1)) = "/" THEN done(p1)
            ELSE and_then(read_tag_name(advance(p1, 1)), child)
    IN  at(skip_whitespace(p))

parse_fraction_value(p) == parse_fraction_value_loop(p, <<>>, <<>>)

\* attrs.iter().any(|(n, v)| *n == "xsi:nil" && (*v == "true" || *v == "1"))
attrs_is_nil(attrs) ==
    \E i \in 1..Len(attrs) :
        attrs[i][1] = lit.xsi_nil /\ (attrs[i][2] = lit.true \/ attrs[i][2] = lit.one)

\* the value content of a fact element whose opening tag ends before p
\* (parse_fact, the else branch of `if is_self_closing || is_nil`)
read_fact_value(p, tag_name) ==
    LET closed(value) ==
            and_then(skip_closing_tag(value.pos, tag_name),
                     LAMBDA closing : Ok(closing.pos, value.val))
        nested(first) ==
            IF ends_with(first.val, lit.numerator)
            THEN parse_fraction_value(p)
            ELSE read_mixed_content_until_closing(p, tag_name)
    IN  and_then(IF peek(p) = "<"
                 THEN and_then(peek_tag_name(p), nested)
                 ELSE read_text_content_with_cdata(p),
                 closed)

\* parse_fact up to the Fact it builds: the value is the Fact, if the element
\* carries a contextRef
parse_fact(p, tag_name) ==
    LET \* attrs.iter().find(..).and_then(|(_, v)| v.parse().ok()), by parser
        parsed(attr, is_i8) ==
            IF ~is_some(attr) THEN NoneOpt
            ELSE IF is_i8 THEN parse_i8(unwrap(attr)) ELSE parse_u8(unwrap(attr))
        fact(attrs, is_nil, context_ref, value) ==
            IF ~is_some(context_ref) THEN Ok(value.pos, NoneOpt)
            ELSE Ok(value.pos, Some(
                     [id |-> attr_find(attrs, lit.id),
                      concept |-> tag_name,
                      context_ref |-> unwrap(context_ref),
                      unit_ref |-> attr_find(attrs, lit.unitRef),
                      value |-> value.val,
                      decimals |-> parsed(attr_find(attrs, lit.decimals), TRUE),
                      precision |-> parsed(attr_find(attrs, lit.precision), FALSE),
                      nil |-> is_nil,
                      nil_reason |-> IF is_nil THEN attr_find(attrs, lit.nilReason)
                                     ELSE NoneOpt,
                      footnote_refs |-> <<>>]))
        valued(attrs, is_nil, is_self_closing, open_end) ==
            and_then(IF is_self_closing \/ is_nil
                     THEN Ok(open_end.pos, <<>>)
                     ELSE read_fact_value(open_end.pos, tag_name),
                     LAMBDA value :
                         fact(attrs, is_nil, attr_find(attrs, lit.contextRef), value))
    IN  and_then(parse_attributes(p), LAMBDA attrs :
        and_then(skip_to_tag_end(attrs.pos), LAMBDA open_end :
            valued(attrs.val, attrs_is_nil(attrs.val), check_self_closing(attrs.pos),
                   open_end)))

\* the value is the position of the first context with the id
get_or_create_context_id(contexts, context_ref) ==
    IF \E i \in 1..Len(contexts) : contexts[i].id = context_ref
    THEN Ok(0, (CHOOSE i \in 1..Len(contexts) :
                    /\ contexts[i].id = context_ref
                    /\ \A j \in 1..(i - 1) : contexts[j].id # context_ref) - 1)
    ELSE Err("NotFound")

\* the value is the position of the first unit with the id, plus one
get_or_create_unit_id(units, unit_ref) ==
    IF \E i \in 1..Len(units) : units[i].id = unit_ref
    THEN Ok(0, CHOOSE i \in 1..Len(units) :
                   /\ units[i].id = unit_ref
                   /\ \A j \in 1..(i - 1) : units[j].id # unit_ref)
    ELSE Err("NotFound")

\* fact.unit_ref.as_ref().and_then(|u| get_or_create_unit_id(u).ok()).unwrap_or(0)
unit_id_of(units, unit_ref) ==
    LET resolved(r) == IF r.ok THEN r.val ELSE 0
    IN  IF is_some(unit_ref)
        THEN resolved(get_or_create_unit_id(units, unwrap(unit_ref)))
        ELSE 0

\* the CompactFact that parse_fact pushes for a fact outside every tuple,
\* given the concept id and context id it resolved and the coerced value
compact_fact(fact, concept_id, context_id, unit_id, coerced) ==
    [concept_id |-> concept_id,
     context_id |-> context_id,
     unit_id |-> unit_id,
     value_type |-> coerced.value_type,
     flags |-> (IF fact.nil THEN {"NIL"} ELSE {})
               \cup (IF is_some(fact.precision) THEN {"HAS_PRECISION"} ELSE {})
               \cup (IF is_some(fact.decimals) THEN {"HAS_DECIMALS"} ELSE {}),
     value |-> coerced.value]

\* the value is the Tuple that parse_tuple pushes on the stack
parse_tuple(p, tag_name) ==
    and_then(parse_attributes(p), LAMBDA attrs :
    and_then(skip_to_tag_end(attrs.pos), LAMBDA open_end :
        Ok(open_end.pos, [id |-> attr_find(attrs.val, lit.id),
                          name |-> tag_name,
                          facts |-> <<>>])))

\* the slip of telling a tuple by the absence of an id
is_tuple_without_id(p) ==
    LET peeked(attrs) ==
            IF ~attrs.ok THEN FALSE
            ELSE ~is_some(attr_find(attrs.val, lit.id))
    IN  peeked(peek_attributes(p))

is_tuple(p) ==
    LET peeked(attrs) ==
            IF ~attrs.ok THEN FALSE
            ELSE ~is_some(attr_find(attrs.val, lit.contextRef))
    IN  peeked(peek_attributes(p))

\* HashMap::insert on a map kept as a sequence of <<key, value>>: the value of
\* an existing key is replaced
map_insert(map, key, value) ==
    IF \E i \in 1..Len(map) : map[i][1] = key
    THEN [i \in 1..Len(map) |-> IF map[i][1] = key THEN <<key, value>> ELSE map[i]]
    ELSE Append(map, <<key, value>>)

RECURSIVE parse_footnote_link_loop(_, _, _, _)
parse_footnote_link_loop(p, role, footnotes_map, fact_footnote_links) ==
    LET done(at) == Ok(at, [footnotes_map |-> footnotes_map,
                            fact_footnote_links |-> fact_footnote_links])
        \* a footnote child, from the end of its opening tag
        footnote(attrs, id, content) ==
            and_then(skip_closing_tag(content.pos, lit.footnote), LAMBDA closed :
                parse_footnote_link_loop(closed.pos, role,
                    map_insert(footnotes_map, id,
                        [id |-> id,
                         role |-> role,
                         lang |-> attr_find_suffix(attrs, lit.lang, {}),
                         content |-> content.val,
                         fact_refs |-> <<>>]),
                    fact_footnote_links))
        child(tag) ==
            IF ends_with(tag.val, lit.footnote)
            THEN and_then(parse_attributes(tag.pos), LAMBDA attrs :
                 and_then(skip_to_tag_end(attrs.pos), LAMBDA open_end :
                 and_then(read_text_content_with_cdata(open_end.pos), LAMBDA content :
                     footnote(attrs.val,
                              unwrap_or(attr_find_suffix(attrs.val, lit.label, {lit.id}), <<>>),
                              content))))
            ELSE IF ends_with(tag.val, lit.footnoteArc)
            THEN and_then(parse_attributes(tag.pos), LAMBDA attrs :
                 and_then(skip_element_from_tag(attrs.pos), LAMBDA arc_end :
                     parse_footnote_link_loop(arc_end.pos, role, footnotes_map,
                         Append(fact_footnote_links,
                             <<unwrap_or(attr_find_suffix(attrs.val, lit.from, {}), <<>>),
                               unwrap_or(attr_find_suffix(attrs.val, lit.to, {}), <<>>)>>))))
            ELSE and_then(skip_element_from_tag(tag.pos), LAMBDA skipped :
                     parse_footnote_link_loop(skipped.pos, role, footnotes_map,
                                              fact_footnote_links))
        closing(p1, tag) ==
            IF ends_with(tag.val, lit.footnoteLink)
            THEN and_then(skip_to_tag_end(tag.pos), LAMBDA closing_end : done(closing_end.pos))
            ELSE done(p1)
        at(p1) ==
            IF peek(p1) # "<" THEN done(p1)
            ELSE IF peek(advance(p1, 1)) = "/"
                 THEN and_then(read_tag_name(advance(p1, 2)), LAMBDA tag : closing(p1, tag))
            ELSE and_then(read_tag_name(advance(p1, 1)), child)
    IN  at(skip_whitespace(p))

\* "Process footnote links": each arc's from is pushed to the fact_refs of the
\* footnote its to names, if there is one
RECURSIVE attach_fact_refs(_, _)
attach_fact_refs(footnotes_map, fact_footnote_links) ==
    IF fact_footnote_links = <<>> THEN footnotes_map
    ELSE LET fact_ref == Head(fact_footnote_links)[1]
             footnote_ref == Head(fact_footnote_links)[2]
         IN  attach_fact_refs(
                 [i \in 1..Len(footnotes_map) |->
                     IF footnotes_map[i][1] = footnote_ref
                     THEN <<footnote_ref,
                            [footnotes_map[i][2] EXCEPT !.fact_refs = Append(@, fact_ref)]>>
                     ELSE footnotes_map[i]],
                 Tail(fact_footnote_links))

\* the value is footnotes_map after the arcs were attached, in insertion order;
\* the order in which its footnotes reach document.footnotes is the HashMap's
parse_footnote_link(p) ==
    and_then(parse_attributes(p), LAMBDA attrs :
    and_then(skip_to_tag_end(attrs.pos), LAMBDA open_end :
    and_then(parse_footnote_link_loop(open_end.pos,
                 attr_find_suffix(attrs.val, lit.role, {}), <<>>, <<>>),
             LAMBDA body :
                 Ok(body.pos, attach_fact_refs(body.val.footnotes_map,
                                               body.val.fact_footnote_links)))))

\* the namespace an xmlns attribute of the root declares
ns_name(name) ==
    IF Len(name) > 6 /\ name[6] = ":" THEN SubSeq(name, 7, Len(name)) ELSE <<>>

RECURSIVE insert_namespaces(_, _)
insert_namespaces(namespaces, attrs) ==
    IF attrs = <<>> THEN namespaces
    ELSE insert_namespaces(
             IF starts_with(Head(attrs)[1], lit.xmlns)
             THEN map_insert(namespaces, ns_name(Head(attrs)[1]), Head(attrs)[2])
             ELSE namespaces,
             Tail(attrs))

\* the value is document.namespaces afterwards
parse_xbrl_root(p, namespaces) ==
    and_then(parse_attributes(p), LAMBDA attrs :
    and_then(skip_to_tag_end(attrs.pos), LAMBDA open_end :
        Ok(open_end.pos, insert_namespaces(namespaces, attrs.val))))

\* the value is document.schema_ref afterwards; load_schemas is false, as
\* FullXbrlParser::new and Parser::new set it
parse_schema_ref(p, schema_ref) ==
    LET href(attrs, skipped) ==
            IF is_some(attr_find_suffix(attrs, lit.href, {}))
            THEN Ok(skipped.pos, attr_find_suffix(attrs, lit.href, {}))
            ELSE Ok(skipped.pos, schema_ref)
    IN  and_then(parse_attributes(p), LAMBDA attrs :
        and_then(skip_element_from_tag(attrs.pos), LAMBDA skipped :
            href(attrs.val, skipped)))

-----------------------------------------------------------------------------
(* cache.rs: LockFreeCache<K, V>.  The DashMap is a function from the keys *)
(* it holds to their values.                                                *)

\* LockFreeCache::new
new_cache(capacity) == [map |-> [k \in {} |-> None], capacity |-> capacity]

\* DashMap::len
dash_len(map) == Cardinality(DOMAIN map)

\* DashMap::remove: nothing happens for a key the map does not hold
dash_remove(map, key) == [k \in DOMAIN map \ {key} |-> map[k]]

\* DashMap::insert: the value of a key the map holds is replaced
dash_insert(map, key, value) ==
    [k \in DOMAIN map \cup {key} |-> IF k = key THEN value ELSE map[k]]

\* LockFreeCache::get
cache_get(c, key) == IF key \in DOMAIN c.map THEN Some(c.map[key]) ELSE NoneOpt

----------------------------------------------------------------------------
(* linkbase.rs: LinkbaseProcessor.  Each HashMap<CompactString, Vec<_>> is  *)
(* kept as a sequence of <<key, vector>>; an entry is made only to be       *)
(* pushed to, so no vector is empty.  The linkbase texts of the model hold  *)
(* no definition and no reference links, and those two maps are left out.   *)

\* LinkbaseProcessor::new
new_linkbase ==
    [presentation_links |-> <<>>, calculation_links |-> <<>>, label_links |-> <<>>]

\* map.entry(key).or_insert_with(Vec::new).push(link)
entry_push(map, key, link) ==
    IF \E i \in 1..Len(map) : map[i][1] = key
    THEN [i \in 1..Len(map) |->
             IF map[i][1] = key THEN <<key, Append(map[i][2], link)>> ELSE map[i]]
    ELSE Append(map, <<key, <<link>>>>)

\* HashMap::get
map_get(map, key) ==
    IF \E i \in 1..Len(map) : map[i][1] = key
    THEN Some(map[CHOOSE i \in 1..Len(map) : map[i][1] = key][2])
    ELSE NoneOpt

\* text.find(name), then text[start + name.len()..].find('"'): the text
\* between the first occurrence of name and the next quote
quoted_after(text, name) ==
    LET value(rest) ==
            LET ended(end) ==
                    IF is_some(end) THEN Some(SubSeq(rest, 1, unwrap(end))) ELSE NoneOpt
            IN  ended(find(rest, "\""))
        found(start) ==
            IF is_some(start)
            THEN value(SubSeq(text, unwrap(start) + Len(name) + 1, Len(text)))
            ELSE NoneOpt
    IN  found(find_str(text, name))

\* if let Ok(v) = quoted.parse() { field = v }: the attribute parsed as a
\* float, or the value the field had
parsed_or(quoted, default) ==
    IF is_some(quoted) THEN unwrap_or(parse_f64(unwrap(quoted)), default) ELSE default

\* 1.0
ONE == normal_f64(FALSE, 1, 0)

\* <i32 as FromStr>
parse_i32(s) == in_range(parse_int(s, TRUE), -2147483647 - 1, 2147483647)

\* the PresentationLink of the text of one arc
presentation_link(arc_text) ==
    [from |-> unwrap_or(quoted_after(arc_text, lit.xlink_from), <<>>),
     to |-> unwrap_or(quoted_after(arc_text, lit.xlink_to), <<>>),
     order |-> parsed_or(quoted_after(arc_text, lit.order_eq), ONE),
     priority |-> LET parsed(quoted) ==
                          IF is_some(quoted) THEN parse_i32(unwrap(quoted)) ELSE NoneOpt
                  IN  parsed(quoted_after(arc_text, lit.priority_eq)),
     use_attribute |-> quoted_after(arc_text, lit.use_eq)]

\* the loop of parse_presentation_linkbase from position p, on the map links
RECURSIVE parse_presentation_linkbase_loop(_, _, _)
parse_presentation_linkbase_loop(text, p, links) ==
    LET pushed(link) == entry_push(links, link.from, link)
        at(arc_start) ==
            LET ended(arc_end) ==
                    parse_presentation_linkbase_loop(text, arc_start + 1,
                        IF is_some(arc_end)
                        THEN pushed(presentation_link(
                                 SubSeq(text, arc_start + 1, arc_start + unwrap(arc_end))))
                        ELSE links)
            IN  ended(find_str(SubSeq(text, arc_start + 1, Len(text)), lit.slash_gt))
        found(hit) == IF is_some(hit) THEN at(p + unwrap(hit)) ELSE links
    IN  found(find_str(SubSeq(text, p + 1, Len(text)), lit.presentationArc))

parse_presentation_linkbase(text, links) == parse_presentation_linkbase_loop(text, 0, links)

\* the CalculationLink of the text of one arc
calculation_link(arc_text) ==
    [from |-> unwrap_or(quoted_after(arc_text, lit.xlink_from), <<>>),
     to |-> unwrap_or(quoted_after(arc_text, lit.xlink_to), <<>>),
     weight |-> parsed_or(quoted_after(arc_text, lit.weight_eq), ONE),
     order |-> parsed_or(quoted_after(arc_text, lit.order_eq), ONE)]

RECURSIVE parse_calculation_linkbase_loop(_, _, _)
parse_calculation_linkbase_loop(text, p, links) ==
    LET pushed(link) == entry_push(links, link.from, link)
        at(arc_start) ==
            LET ended(arc_end) ==
                    parse_calculation_linkbase_loop(text, arc_start + 1,
                        IF is_some(arc_end)
                        THEN pushed(calculation_link(
                                 SubSeq(text, arc_start + 1, arc_start + unwrap(arc_end))))
                        ELSE links)
            IN  ended(find_str(SubSeq(text, arc_start + 1, Len(text)), lit.slash_gt))
        found(hit) == IF is_some(hit) THEN at(p + unwrap(hit)) ELSE links
    IN  found(find_str(SubSeq(text, p + 1, Len(text)), lit.calculationArc))

parse_calculation_linkbase(text, links) == parse_calculation_linkbase_loop(text, 0, links)

\* the LabelLink of the text from "<link:label" up to "</link:label>"
label_link(label_text) ==
    [concept |-> unwrap_or(quoted_after(label_text, lit.xlink_label), <<>>),
     label |-> LET content(content_start) ==
                       IF is_some(content_start)
                       THEN trim(SubSeq(label_text, unwrap(content_start) + 2,
                                        Len(label_text)))
                       ELSE <<>>
               IN  content(find(label_text, ">")),
     role |-> unwrap_or(quoted_after(label_text, lit.xlink_role), <<>>),
     lang |-> unwrap_or(quoted_after(label_text, lit.xml_lang), lit.en)]

RECURSIVE parse_label_linkbase_loop(_, _, _)
parse_label_linkbase_loop(text, p, links) ==
    LET pushed(link) == entry_push(links, link.concept, link)
        at(label_start) ==
            LET ended(label_end) ==
                    parse_label_linkbase_loop(text, label_start + 1,
                        IF is_some(label_end)
                        THEN pushed(label_link(
                                 SubSeq(text, label_start + 1,
                                        label_start + unwrap(label_end))))
                        ELSE links)
            IN  ended(find_str(SubSeq(text, label_start + 1, Len(text)), lit.label_close))
        found(hit) == IF is_some(hit) THEN at(p + unwrap(hit)) ELSE links
    IN  found(find_str(SubSeq(text, p + 1, Len(text)), lit.label_open))

parse_label_linkbase(text, links) == parse_label_linkbase_loop(text, 0, links)

\* str::contains(pattern)
contains_str(text, pattern) == is_some(find_str(text, pattern))

\* LinkbaseProcessor::parse_linkbase on the processor lb: the Result and the
\* processor afterwards.  No input of the model starts with a byte order
\* mark, and all of it is valid UTF-8.
parse_linkbase(lb, bytes) ==
    [result |-> Ok(0, <<>>),
     linkbase |->
         [presentation_links |->
              IF contains_str(bytes, lit.presentationLink)
              THEN parse_presentation_linkbase(bytes, lb.presentation_links)
              ELSE lb.presentation_links,
          calculation_links |->
              IF contains_str(bytes, lit.calculationLink)
              THEN parse_calculation_linkbase(bytes, lb.calculation_links)
              ELSE lb.calculation_links,
          label_links |->
              IF contains_str(bytes, lit.labelLink)
              THEN parse_label_linkbase(bytes, lb.label_links)
              ELSE lb.label_links]]

(* f64 arithmetic on the decimals of the model.  A sum or a product is taken *)
(* exactly; the f64 result differs from it by rounding alone, under 1e-12 at *)
(* the magnitudes of the model, so both order alike against the tolerance    *)
(* unless the exact difference is the tolerance itself.  The sign of a zero  *)
(* result is not kept.                                                       *)

RECURSIVE pow10(_)
pow10(n) == IF n = 0 THEN 1 ELSE 10 * pow10(n - 1)

\* the finite v as a signed count of 10^e, for e no greater than its exponent
scaled(v, e) == (IF v.neg THEN 0 - v.mant ELSE v.mant) * pow10(v.exp - e)

NAN == [kind |-> "nan", neg |-> FALSE, mant |-> 0, exp |-> 0]

\* f64::partial_cmp: no Ordering when either side is NaN
partial_cmp(a, b) ==
    LET side(v) == IF v.kind = "inf" THEN (IF v.neg THEN 0 - 1 ELSE 1) ELSE 0
        ordering(x, y) == IF x < y THEN "Less" ELSE IF x > y THEN "Greater" ELSE "Equal"
        finite(e) == ordering(scaled(a, e), scaled(b, e))
    IN  IF a.kind = "nan" \/ b.kind = "nan" THEN NoneOpt
        ELSE IF side(a) # 0 \/ side(b) # 0 THEN Some(ordering(side(a), side(b)))
        ELSE Some(finite(Min(a.exp, b.exp)))

\* a + b
f64_add(a, b) ==
    LET sum(n, e) == normal_f64(FALSE, n, e)
        finite(e) ==
            LET signed(n) == IF n < 0 THEN [sum(0 - n, e) EXCEPT !.neg = TRUE] ELSE sum(n, e)
            IN  signed(scaled(a, e) + scaled(b, e))
    IN  IF a.kind = "nan" \/ b.kind = "nan" THEN NAN
        ELSE IF a.kind = "inf" /\ b.kind = "inf" /\ a.neg # b.neg THEN NAN
        ELSE IF a.kind = "inf" THEN a
        ELSE IF b.kind = "inf" THEN b
        ELSE finite(Min(a.exp, b.exp))

\* a * b
f64_mul(a, b) ==
    IF a.kind = "nan" \/ b.kind = "nan" THEN NAN
    ELSE IF a.kind = "inf" \/ b.kind = "inf"
         THEN IF (a.kind = "finite" /\ a.mant = 0) \/ (b.kind = "finite" /\ b.mant = 0)
              THEN NAN
              ELSE [kind |-> "inf", neg |-> a.neg # b.neg, mant |-> 0, exp |-> 0]
    ELSE IF a.mant = 0 \/ b.mant = 0 THEN normal_f64(FALSE, 0, 0)
    ELSE normal_f64(a.neg # b.neg, a.mant * b.mant, a.exp + b.exp)

\* (a - b).abs()
f64_abs_diff(a, b) ==
    LET abs(v) == [v EXCEPT !.neg = FALSE]
    IN  abs(f64_add(a, [b EXCEPT !.neg = ~@]))

\* slice::sort_by(|a, b| a.order.partial_cmp(&b.order).unwrap()) on links
\* whose orders all compare: a stable sort, here by insertion
RECURSIVE sort_by_order(_)
sort_by_order(links) ==
    IF Len(links) <= 1 THEN links
    ELSE LET insert(sorted, x) ==
                 LET at(k) ==
                         SubSeq(sorted, 1, k) \o <<x>> \o SubSeq(sorted, k + 1, Len(sorted))
                 IN  at(Cardinality({i \in 1..Len(sorted) :
                            partial_cmp(sorted[i].order, x.order) # Some("Greater")}))
         IN  insert(sort_by_order(SubSeq(links, 1, Len(links) - 1)), links[Len(links)])

\* LinkbaseProcessor::get_presentation_tree.  A sort of two links or more
\* compares every link with another, and the comparator's unwrap panics when
\* one of the two orders is NaN.
get_presentation_tree(lb, root) ==
    LET sorted(links) ==
            IF Len(links) >= 2 /\ \E i \in 1..Len(links) : links[i].order.kind = "nan"
            THEN [kind |-> "Panic"]
            ELSE [kind |-> "Ok", links |-> sort_by_order(links)]
    IN  sorted(unwrap_or(map_get(lb.presentation_links, root), <<>>))

\* facts.get(name) on a HashMap<String, f64> kept as a sequence of <<name, value>>
facts_get(facts, name) ==
    IF \E i \in 1..Len(facts) : facts[i][1] = name
    THEN Some(facts[CHOOSE i \in 1..Len(facts) : facts[i][1] = name][2])
    ELSE NoneOpt

\* Iterator::sum of f64s
RECURSIVE f64_sum(_)
f64_sum(values) ==
    IF values = <<>> THEN normal_f64(FALSE, 0, 0)
    ELSE f64_add(f64_sum(SubSeq(values, 1, Len(values) - 1)), values[Len(values)])

\* the slip of adding the children's values without their weights
calculate_total_unweighted(lb, parent, facts) ==
    LET total(links) ==
            IF is_some(links)
            THEN f64_sum([i \in 1..Len(unwrap(links)) |->
                             unwrap_or(facts_get(facts, unwrap(links)[i].to),
                                       normal_f64(FALSE, 0, 0))])
            ELSE unwrap_or(facts_get(facts, parent), normal_f64(FALSE, 0, 0))
    IN  total(map_get(lb.calculation_links, parent))

\* LinkbaseProcessor::calculate_total
calculate_total(lb, parent, facts) ==
    LET term(link) ==
            LET weighted(value) ==
                    IF is_some(value) THEN f64_mul(unwrap(value), link.weight)
                    ELSE normal_f64(FALSE, 0, 0)
            IN  weighted(facts_get(facts, link.to))
        total(links) ==
            IF is_some(links)
            THEN f64_sum([i \in 1..Len(unwrap(links)) |-> term(unwrap(links)[i])])
            ELSE unwrap_or(facts_get(facts, parent), normal_f64(FALSE, 0, 0))
    IN  total(map_get(lb.calculation_links, parent))

\* the slip of leaving out the same-lang step
get_label_exact_or_first(lb, concept, role, lang) ==
    LET first(labels, matches(_)) ==
            IF \E i \in 1..Len(labels) : matches(labels[i])
            THEN Some(labels[CHOOSE i \in 1..Len(labels) :
                                 /\ matches(labels[i])
                                 /\ \A j \in 1..(i - 1) : ~matches(labels[j])])
            ELSE NoneOpt
        or_else(found, other) == IF is_some(found) THEN found ELSE other
        picked(labels) ==
            or_else(first(labels, LAMBDA l : l.role = role /\ l.lang = lang),
                    IF labels # <<>> THEN Some(labels[1]) ELSE NoneOpt)
        text(l) == IF is_some(l) THEN Some(unwrap(l).label) ELSE NoneOpt
        looked(entry) == IF is_some(entry) THEN text(picked(unwrap(entry))) ELSE NoneOpt
    IN  looked(map_get(lb.label_links, concept))

\* the slip of trying the role in any lang before the lang in any role
get_label_role_first(lb, concept, role, lang) ==
    LET first(labels, matches(_)) ==
            IF \E i \in 1..Len(labels) : matches(labels[i])
            THEN Some(labels[CHOOSE i \in 1..Len(labels) :
                                 /\ matches(labels[i])
                                 /\ \A j \in 1..(i - 1) : ~matches(labels[j])])
            ELSE NoneOpt
        or_else(found, other) == IF is_some(found) THEN found ELSE other
        picked(labels) ==
            or_else(or_else(or_else(first(labels, LAMBDA l : l.role = role /\ l.lang = lang),
                                    first(labels, LAMBDA l : l.role = role)),
                            first(labels, LAMBDA l : l.lang = lang)),
                    IF labels # <<>> THEN Some(labels[1]) ELSE NoneOpt)
        text(l) == IF is_some(l) THEN Some(unwrap(l).label) ELSE NoneOpt
        looked(entry) == IF is_some(entry) THEN text(picked(unwrap(entry))) ELSE NoneOpt
    IN  looked(map_get(lb.label_links, concept))

\* LinkbaseProcessor::get_label
get_label(lb, concept, role, lang) ==
    LET first(labels, matches(_)) ==
            IF \E i \in 1..Len(labels) : matches(labels[i])
            THEN Some(labels[CHOOSE i \in 1..Len(labels) :
                                 /\ matches(labels[i])
                                 /\ \A j \in 1..(i - 1) : ~matches(labels[j])])
            ELSE NoneOpt
        or_else(found, other) == IF is_some(found) THEN found ELSE other
        picked(labels) ==
            or_else(or_else(first(labels, LAMBDA l : l.role = role /\ l.lang = lang),
                            first(labels, LAMBDA l : l.lang = lang)),
                    IF labels # <<>> THEN Some(labels[1]) ELSE NoneOpt)
        text(l) == IF is_some(l) THEN Some(unwrap(l).label) ELSE NoneOpt
        looked(entry) == IF is_some(entry) THEN text(picked(unwrap(entry))) ELSE NoneOpt
    IN  looked(map_get(lb.label_links, concept))

\* the slip of allowing no difference at all
TOLERANCE_OF_ZERO == normal_f64(FALSE, 0, 0)

\* let tolerance = 0.01
TOLERANCE == normal_f64(FALSE, 1, 0 - 2)

\* LinkbaseProcessor::validate_calculations: the errors, the map's entries
\* being visited in the order `order`
validate_calculations(lb, facts, order) ==
    LET entry(i) == lb.calculation_links[order[i]]
        checked(parent, calculated, actual) ==
            IF /\ is_some(actual)
               /\ partial_cmp(f64_abs_diff(calculated, unwrap(actual)), TOLERANCE)
                      = Some("Greater")
            THEN <<[kind |-> "CalculationInconsistency", concept |-> parent,
                    expected |-> calculated, actual |-> unwrap(actual)]>>
            ELSE <<>>
        visit(parent) ==
            checked(parent, calculate_total(lb, parent, facts), facts_get(facts, parent))
        RECURSIVE errors(_)
        errors(n) == IF n = 0 THEN <<>> ELSE errors(n - 1) \o visit(entry(n)[1])
    IN  errors(Len(lb.calculation_links))

----------------------------------------------------------------------------
(* parser.rs: FullXbrlParser::parse, one action per way an iteration of its *)
(* top-level loop can go                                                   *)

Running == [kind |-> "Running"]

Returned(d) == [kind |-> "Ok", document |-> d]

Failed(kind) == [kind |-> "Err", err |-> kind]

\* the loop condition, tested after every iteration: at the end of the buffer
\* parse returns the document
loop_or_return(p, d) == IF is_eof(p) THEN Returned(d) ELSE Running

in_loop == ret = Running /\ last # "new"

\* where the iteration finds its token, and the byte after its '<'
token_start == skip_whitespace(pos)
after_lt == advance(token_start, 1)
at_tag == in_loop /\ peek(token_start) = "<"
at_element == at_tag /\ peek(after_lt) \notin {"?", "!", "/"}

\* the tag name parse_element reads
element == read_tag_name(after_lt)

is_root_tag(tag_name) == tag_name = lit.xbrl \/ ends_with(tag_name, lit.c_xbrl)

is_structural(tag_name) ==
    \/ starts_with(tag_name, lit.link_)
    \/ starts_with(tag_name, lit.xbrldi_)
    \/ /\ starts_with(tag_name, lit.xbrli_)
       /\ ~ends_with(tag_name, lit.c_context)
       /\ ~ends_with(tag_name, lit.c_unit)

\* the branch of parse_element that a tag name inside the root takes
handler_of(tag_name) ==
    IF ends_with(tag_name, lit.c_context) \/ tag_name = lit.context THEN "parse_context"
    ELSE IF ends_with(tag_name, lit.c_unit) \/ tag_name = lit.unit THEN "parse_unit"
    ELSE IF ends_with(tag_name, lit.c_schemaRef) \/ tag_name = lit.schemaRef
         THEN "parse_schema_ref"
    ELSE IF ends_with(tag_name, lit.c_footnoteLink) \/ tag_name = lit.footnoteLink
         THEN "parse_footnote_link"
    ELSE IF contains(tag_name, ":") /\ ~is_structural(tag_name) THEN "fact_or_tuple"
    ELSE "skip_element_from_tag"

dispatches(handler) ==
    /\ at_element
    /\ element.ok
    /\ ~is_root_tag(element.val)
    /\ in_xbrl_root
    /\ handler_of(element.val) = handler

\* an iteration that fails, or only moves the cursor
MoveCursor(op, r) ==
    /\ last' = op
    /\ pos' = IF r.ok THEN r.pos ELSE pos
    /\ ret' = IF r.ok THEN loop_or_return(r.pos, document) ELSE Failed(r.err)
    /\ UNCHANGED <<calls, linkbase, cache, data, avx2, in_xbrl_root, current_tuple_stack, document, interner>>

\* an iteration that fails, or moves the cursor and changes the document to d
ChangeDocument(op, r, d) ==
    /\ last' = op
    /\ pos' = IF r.ok THEN r.pos ELSE pos
    /\ document' = IF r.ok THEN d ELSE document
    /\ ret' = IF r.ok THEN loop_or_return(r.pos, d) ELSE Failed(r.err)
    /\ UNCHANGED <<calls, linkbase, cache, data, avx2, in_xbrl_root, current_tuple_stack, interner>>

\* the skip_whitespace before the loop, and the loop's first test
Begin ==
    /\ ret = Running
    /\ last = "new"
    /\ MoveCursor("begin", Ok(skip_whitespace(pos), None))

SkipText ==
    /\ in_loop
    /\ peek(token_start) # "<"
    /\ MoveCursor("skip_text", Ok(scan_until(token_start, {"<"}), None))

ProcessingInstruction ==
    /\ at_tag
    /\ peek(after_lt) = "?"
    /\ MoveCursor("skip_processing_instruction", skip_processing_instruction(after_lt))

Comment ==
    /\ at_tag
    /\ peek(after_lt) = "!"
    /\ peek_ahead_is(after_lt, lit.comment_open)
    /\ MoveCursor("skip_comment", skip_comment(after_lt))

\* the CDATA branch of the loop without its advance past the '<'
CdataMarkerNotConsumed ==
    /\ at_tag
    /\ peek(after_lt) = "!"
    /\ ~peek_ahead_is(after_lt, lit.comment_open)
    /\ peek_ahead_is(after_lt, lit.cdata_bang)
    /\ MoveCursor("cdata", Ok(token_start, None))

\* "We're in an element, handle CDATA": the loop goes on after the '<'
CdataMarker ==
    /\ at_tag
    /\ peek(after_lt) = "!"
    /\ ~peek_ahead_is(after_lt, lit.comment_open)
    /\ peek_ahead_is(after_lt, lit.cdata_bang)
    /\ MoveCursor("cdata", Ok(after_lt, None))

Doctype ==
    /\ at_tag
    /\ peek(after_lt) = "!"
    /\ ~peek_ahead_is(after_lt, lit.comment_open)
    /\ ~peek_ahead_is(after_lt, lit.cdata_bang)
    /\ MoveCursor("skip_doctype", skip_doctype(after_lt))

\* the tag name and the end of the closing tag the iteration is at
closing_name == read_tag_name(advance(after_lt, 1))
closing_end == skip_to_tag_end(closing_name.pos)
at_closing_tag == at_tag /\ peek(after_lt) = "/" /\ closing_name.ok /\ closing_end.ok

\* the slip of closing whichever open tuple has the tag's name, not only the
\* one on top of the stack
closes_any_tuple(tag_name, stack) ==
    \E i \in 1..Len(stack) :
        \/ tag_name = stack[i].name
        \/ ends_with(tag_name, <<":">> \o stack[i].name)

\* the test "Check if we're closing a tuple"
closes_top_tuple(tag_name, stack) ==
    /\ stack # <<>>
    /\ \/ tag_name = stack[Len(stack)].name
       \/ ends_with(tag_name, <<":">> \o stack[Len(stack)].name)

\* the stack after its top tuple was popped and, with a tuple still open,
\* pushed to the facts of the new top
stack_after_pop(stack) ==
    LET popped(tuple, rest) ==
            IF rest = <<>> THEN rest
            ELSE [rest EXCEPT ![Len(rest)].facts =
                     Append(@, [kind |-> "Tuple", tuple |-> tuple])]
    IN  popped(stack[Len(stack)], SubSeq(stack, 1, Len(stack) - 1))

\* the slip of pushing every closed tuple to the document, nested or not
tuples_after_pop_unconditional(tuples, stack) == Append(tuples, stack[Len(stack)])

\* document.tuples after the top tuple of the stack was popped
tuples_after_pop(tuples, stack) ==
    IF Len(stack) = 1 THEN Append(tuples, stack[1]) ELSE tuples

\* a tag name cannot be read, or the closing tag has no '>'
TagError ==
    /\ at_tag
    /\ \/ peek(after_lt) = "/" /\ ~(closing_name.ok /\ closing_end.ok)
       \/ at_element /\ ~element.ok
    /\ MoveCursor("tag_error", Err("Parse"))

\* the closing tag of the root ends the loop and the parse
CloseRoot ==
    /\ at_closing_tag
    /\ is_root_tag(closing_name.val)
    /\ last' = "close_root"
    /\ pos' = closing_end.pos
    /\ in_xbrl_root' = FALSE
    /\ ret' = Returned(document)
    /\ UNCHANGED <<calls, linkbase, cache, data, avx2, current_tuple_stack, document, interner>>

CloseTuple ==
    /\ at_closing_tag
    /\ ~is_root_tag(closing_name.val)
    /\ closes_top_tuple(closing_name.val, current_tuple_stack)
    /\ last' = "close_tuple"
    /\ pos' = closing_end.pos
    /\ current_tuple_stack' = stack_after_pop(current_tuple_stack)
    /\ document' = [document EXCEPT
                       !.tuples = tuples_after_pop(@, current_tuple_stack)]
    /\ ret' = loop_or_return(closing_end.pos, document')
    /\ UNCHANGED <<calls, linkbase, cache, data, avx2, in_xbrl_root, interner>>

CloseIgnored ==
    /\ at_closing_tag
    /\ ~is_root_tag(closing_name.val)
    /\ ~closes_top_tuple(closing_name.val, current_tuple_stack)
    /\ MoveCursor("close_ignored", closing_end)

OpenRoot ==
    /\ at_element
    /\ element.ok
    /\ is_root_tag(element.val)
    /\ LET opened(r) ==
               /\ last' = "parse_xbrl_root"
               /\ pos' = IF r.ok THEN r.pos ELSE pos
               /\ in_xbrl_root' = IF r.ok THEN TRUE ELSE in_xbrl_root
               /\ document' = IF r.ok THEN [document EXCEPT !.namespaces = r.val]
                              ELSE document
               /\ ret' = IF r.ok THEN loop_or_return(r.pos, document') ELSE Failed(r.err)
       IN  opened(parse_xbrl_root(element.pos, document.namespaces))
    /\ UNCHANGED <<calls, linkbase, cache, data, avx2, current_tuple_stack, interner>>

\* "Only parse these elements if we're inside xbrl root"
OutsideRoot ==
    /\ at_element
    /\ element.ok
    /\ ~is_root_tag(element.val)
    /\ ~in_xbrl_root
    /\ MoveCursor("outside_root", skip_element_from_tag(element.pos))

ContextElement ==
    /\ dispatches("parse_context")
    /\ LET handled(r) ==
               ChangeDocument("parse_context", r,
                   IF is_some(r.val)
                   THEN [document EXCEPT !.contexts = Append(@, unwrap(r.val))]
                   ELSE document)
       IN  handled(parse_context(element.pos))

UnitElement ==
    /\ dispatches("parse_unit")
    /\ LET handled(r) ==
               ChangeDocument("parse_unit", r,
                   IF is_some(r.val)
                   THEN [document EXCEPT !.units = Append(@, unwrap(r.val))]
                   ELSE document)
       IN  handled(parse_unit(element.pos))

SchemaRefElement ==
    /\ dispatches("parse_schema_ref")
    /\ LET handled(r) ==
               ChangeDocument("parse_schema_ref", r, [document EXCEPT !.schema_ref = r.val])
       IN  handled(parse_schema_ref(element.pos, document.schema_ref))

\* all orders of n things: the orders a HashMap of n entries can iterate in
Orders(n) == {f \in [1..n -> 1..n] : \A i, j \in 1..n : i # j => f[i] # f[j]}

FootnoteLinkElement ==
    /\ dispatches("parse_footnote_link")
    /\ LET handled(r) ==
               IF r.ok
               THEN \E order \in Orders(Len(r.val)) :
                        ChangeDocument("parse_footnote_link", r,
                            [document EXCEPT !.footnotes =
                                @ \o [i \in 1..Len(r.val) |-> r.val[order[i]][2]]])
               ELSE ChangeDocument("parse_footnote_link", r, document)
       IN  handled(parse_footnote_link(element.pos))

TupleElement ==
    /\ dispatches("fact_or_tuple")
    /\ is_tuple(element.pos)
    /\ LET pushed(r) ==
               /\ last' = "parse_tuple"
               /\ pos' = IF r.ok THEN r.pos ELSE pos
               /\ current_tuple_stack' =
                      IF r.ok THEN Append(current_tuple_stack, r.val)
                      ELSE current_tuple_stack
               /\ ret' = IF r.ok THEN loop_or_return(r.pos, document) ELSE Failed(r.err)
       IN  pushed(parse_tuple(element.pos, element.val))
    /\ UNCHANGED <<calls, linkbase, cache, data, avx2, in_xbrl_root, document, interner>>

\* the second half of parse_fact: where the Fact goes
FactElement ==
    /\ dispatches("fact_or_tuple")
    /\ ~is_tuple(element.pos)
    /\ last' = "parse_fact"
    /\ LET \* "Add to document facts"
           columnar(r, fact, concept, context_id) ==
               IF ~context_id.ok
               THEN /\ ret' = Failed(context_id.err)
                    /\ interner' = concept.strings
                    /\ UNCHANGED <<pos, current_tuple_stack, document>>
               ELSE LET pushed(coerced) ==
                            /\ pos' = r.pos
                            /\ document' = [document EXCEPT !.facts = Append(@,
                                   compact_fact(fact, concept.id, context_id.val,
                                       unit_id_of(document.units, fact.unit_ref), coerced))]
                            /\ interner' = coerced.strings
                            /\ ret' = loop_or_return(r.pos, document')
                            /\ UNCHANGED current_tuple_stack
                    IN  pushed(parse_fact_value(fact.value, fact.nil, concept.strings))
           placed(r) ==
               IF ~r.ok
               THEN /\ ret' = Failed(r.err)
                    /\ UNCHANGED <<pos, current_tuple_stack, document, interner>>
               ELSE IF ~is_some(r.val)
               THEN /\ pos' = r.pos
                    /\ ret' = loop_or_return(r.pos, document)
                    /\ UNCHANGED <<current_tuple_stack, document, interner>>
               ELSE IF current_tuple_stack # <<>>
               THEN /\ pos' = r.pos
                    /\ current_tuple_stack' =
                           [current_tuple_stack EXCEPT ![Len(current_tuple_stack)].facts =
                               Append(@, [kind |-> "Fact", fact |-> unwrap(r.val)])]
                    /\ ret' = loop_or_return(r.pos, document)
                    /\ UNCHANGED <<document, interner>>
               ELSE columnar(r, unwrap(r.val), intern_string(interner, element.val),
                        get_or_create_context_id(document.contexts,
                                                 unwrap(r.val).context_ref))
       IN  placed(parse_fact(element.pos, element.val))
    /\ UNCHANGED <<calls, linkbase, cache, data, avx2, in_xbrl_root>>

\* structural and unqualified elements inside the root
SkippedElement ==
    /\ dispatches("skip_element_from_tag")
    /\ MoveCursor("skip_element_from_tag", skip_element_from_tag(element.pos))

Next ==
    \/ Begin
    \/ SkipText
    \/ ProcessingInstruction
    \/ Comment
    \/ CdataMarker
    \/ Doctype
    \/ TagError
    \/ CloseRoot
    \/ CloseTuple
    \/ CloseIgnored
    \/ OpenRoot
    \/ OutsideRoot
    \/ ContextElement
    \/ UnitElement
    \/ SchemaRefElement
    \/ FootnoteLinkElement
    \/ TupleElement
    \/ FactElement
    \/ SkippedElement

----------------------------------------------------------------------------
(* The input buffers.  A buffer is a prefix, a sequence of pieces drawn from *)
(* a family, and a suffix; the pieces are whole tags or elements, so the     *)
(* sequences cover well-formed documents and malformed ones alike.           *)

\* <xbrl>
ROOT_OPEN ==
    <<"<", "x", "b", "r", "l", ">">>

\* </xbrl>
ROOT_CLOSE ==
    <<"<", "/", "x", "b", "r", "l", ">">>

\* <context id="c1"><entity><identifier scheme="s">E</identifier></entity><period><instant>d</instant></period></context>
CONTEXT_C1 ==
    <<"<", "c", "o", "n", "t", "e", "x", "t", " ", "i", "d", "=", "\"", "c", "1", "\"", ">",
    "<", "e", "n", "t", "i", "t", "y", ">", "<", "i", "d", "e", "n", "t", "i", "f", "i", "e",
    "r", " ", "s", "c", "h", "e", "m", "e", "=", "\"", "s", "\"", ">", "E", "<", "/", "i", "d",
    "e", "n", "t", "i", "f", "i", "e", "r", ">", "<", "/", "e", "n", "t", "i", "t", "y", ">",
    "<", "p", "e", "r", "i", "o", "d", ">", "<", "i", "n", "s", "t", "a", "n", "t", ">", "d",
    "<", "/", "i", "n", "s", "t", "a", "n", "t", ">", "<", "/", "p", "e", "r", "i", "o", "d",
    ">", "<", "/", "c", "o", "n", "t", "e", "x", "t", ">">>

\* <unit id="u1"><measure>iso4217:USD</measure></unit>
UNIT_U1 ==
    <<"<", "u", "n", "i", "t", " ", "i", "d", "=", "\"", "u", "1", "\"", ">", "<", "m", "e",
    "a", "s", "u", "r", "e", ">", "i", "s", "o", "4", "2", "1", "7", ":", "U", "S", "D", "<", "/",
    "m", "e", "a", "s", "u", "r", "e", ">", "<", "/", "u", "n", "i", "t", ">">>

\* tuple tags and a fact, to nest
TUPLE_PIECES ==
  <<
    \* 1: <t:a>
    <<"<", "t", ":", "a", ">">>,
    \* 2: <t:b>
    <<"<", "t", ":", "b", ">">>,
    \* 3: </t:a>
    <<"<", "/", "t", ":", "a", ">">>,
    \* 4: </t:b>
    <<"<", "/", "t", ":", "b", ">">>,
    \* 5: <a:x contextRef="c1" unitRef="u1">5</a:x>
    <<"<", "a", ":", "x", " ", "c", "o", "n", "t", "e", "x", "t", "R", "e", "f", "=", "\"", "c",
    "1", "\"", " ", "u", "n", "i", "t", "R", "e", "f", "=", "\"", "u", "1", "\"", ">", "5", "<",
    "/", "a", ":", "x", ">">>
  >>

\* fact elements of every shape parse_fact tells apart
FACT_PIECES ==
  <<
    \* 1: <a:x contextRef="c1">12</a:x>
    <<"<", "a", ":", "x", " ", "c", "o", "n", "t", "e", "x", "t", "R", "e", "f", "=", "\"", "c",
    "1", "\"", ">", "1", "2", "<", "/", "a", ":", "x", ">">>,
    \* 2: <a:x contextRef="c9">5</a:x>
    <<"<", "a", ":", "x", " ", "c", "o", "n", "t", "e", "x", "t", "R", "e", "f", "=", "\"", "c",
    "9", "\"", ">", "5", "<", "/", "a", ":", "x", ">">>,
    \* 3: <a:x contextRef="c1"/>
    <<"<", "a", ":", "x", " ", "c", "o", "n", "t", "e", "x", "t", "R", "e", "f", "=", "\"", "c",
    "1", "\"", "/", ">">>,
    \* 4: <a:x id="f1" contextRef="c1" xsi:nil="true">7</a:x>
    <<"<", "a", ":", "x", " ", "i", "d", "=", "\"", "f", "1", "\"", " ", "c", "o", "n", "t",
    "e", "x", "t", "R", "e", "f", "=", "\"", "c", "1", "\"", " ", "x", "s", "i", ":", "n", "i",
    "l", "=", "\"", "t", "r", "u", "e", "\"", ">", "7", "<", "/", "a", ":", "x", ">">>,
    \* 5: <a:x contextRef="c1" unitRef="u1" decimals="2">(5)</a:x>
    <<"<", "a", ":", "x", " ", "c", "o", "n", "t", "e", "x", "t", "R", "e", "f", "=", "\"", "c",
    "1", "\"", " ", "u", "n", "i", "t", "R", "e", "f", "=", "\"", "u", "1", "\"", " ", "d", "e",
    "c", "i", "m", "a", "l", "s", "=", "\"", "2", "\"", ">", "(", "5", ")", "<", "/", "a", ":",
    "x", ">">>,
    \* 6: <a:x contextRef="c1" unitRef="u9" precision="3">n/a</a:x>
    <<"<", "a", ":", "x", " ", "c", "o", "n", "t", "e", "x", "t", "R", "e", "f", "=", "\"", "c",
    "1", "\"", " ", "u", "n", "i", "t", "R", "e", "f", "=", "\"", "u", "9", "\"", " ", "p", "r",
    "e", "c", "i", "s", "i", "o", "n", "=", "\"", "3", "\"", ">", "n", "/", "a", "<", "/", "a",
    ":", "x", ">">>,
    \* 7: <a:n contextRef="c1"><numerator>1</numerator><denominator>2</denominator></a:n>
    <<"<", "a", ":", "n", " ", "c", "o", "n", "t", "e", "x", "t", "R", "e", "f", "=", "\"", "c",
    "1", "\"", ">", "<", "n", "u", "m", "e", "r", "a", "t", "o", "r", ">", "1", "<", "/", "n",
    "u", "m", "e", "r", "a", "t", "o", "r", ">", "<", "d", "e", "n", "o", "m", "i", "n", "a",
    "t", "o", "r", ">", "2", "<", "/", "d", "e", "n", "o", "m", "i", "n", "a", "t", "o", "r",
    ">", "<", "/", "a", ":", "n", ">">>,
    \* 8: <a:m contextRef="c1"><b>x</b>&amp;<![CDATA[<]]></a:m>
    <<"<", "a", ":", "m", " ", "c", "o", "n", "t", "e", "x", "t", "R", "e", "f", "=", "\"", "c",
    "1", "\"", ">", "<", "b", ">", "x", "<", "/", "b", ">", "&", "a", "m", "p", ";", "<", "!",
    "[", "C", "D", "A", "T", "A", "[", "<", "]", "]", ">", "<", "/", "a", ":", "m", ">">>,
    \* 9: <t:a>
    <<"<", "t", ":", "a", ">">>,
    \* 10: </t:a>
    <<"<", "/", "t", ":", "a", ">">>,
    \* 11: <a:x contextRef="c1" flag>5</a:x>
    <<"<", "a", ":", "x", " ", "c", "o", "n", "t", "e", "x", "t", "R", "e", "f", "=", "\"", "c",
    "1", "\"", " ", "f", "l", "a", "g", ">", "5", "<", "/", "a", ":", "x", ">">>,
    \* 12: <a:x contextRef="c1
    <<"<", "a", ":", "x", " ", "c", "o", "n", "t", "e", "x", "t", "R", "e", "f", "=", "\"", "c",
    "1">>
  >>

\* the tags of a context element and its children
CONTEXT_PIECES ==
  <<
    \* 1: <context id="c1">
    <<"<", "c", "o", "n", "t", "e", "x", "t", " ", "i", "d", "=", "\"", "c", "1", "\"", ">">>,
    \* 2: <context>
    <<"<", "c", "o", "n", "t", "e", "x", "t", ">">>,
    \* 3: <entity><identifier scheme="s">E</identifier></entity>
    <<"<", "e", "n", "t", "i", "t", "y", ">", "<", "i", "d", "e", "n", "t", "i", "f", "i", "e",
    "r", " ", "s", "c", "h", "e", "m", "e", "=", "\"", "s", "\"", ">", "E", "<", "/", "i", "d",
    "e", "n", "t", "i", "f", "i", "e", "r", ">", "<", "/", "e", "n", "t", "i", "t", "y", ">">>,
    \* 4: <period><instant>d</instant></period>
    <<"<", "p", "e", "r", "i", "o", "d", ">", "<", "i", "n", "s", "t", "a", "n", "t", ">", "d",
    "<", "/", "i", "n", "s", "t", "a", "n", "t", ">", "<", "/", "p", "e", "r", "i", "o", "d",
    ">">>,
    \* 5: <scenario></scenario>
    <<"<", "s", "c", "e", "n", "a", "r", "i", "o", ">", "<", "/", "s", "c", "e", "n", "a", "r",
    "i", "o", ">">>,
    \* 6: </context>
    <<"<", "/", "c", "o", "n", "t", "e", "x", "t", ">">>
  >>

\* the tags of a unit element and its children
UNIT_PIECES ==
  <<
    \* 1: <unit id="u1">
    <<"<", "u", "n", "i", "t", " ", "i", "d", "=", "\"", "u", "1", "\"", ">">>,
    \* 2: <unit>
    <<"<", "u", "n", "i", "t", ">">>,
    \* 3: <measure>a:b</measure>
    <<"<", "m", "e", "a", "s", "u", "r", "e", ">", "a", ":", "b", "<", "/", "m", "e", "a", "s",
    "u", "r", "e", ">">>,
    \* 4: <divide><unitNumerator><measure>x</measure></unitNumerator><unitDenominator><measure>y</measure></unitDenominator></divide>
    <<"<", "d", "i", "v", "i", "d", "e", ">", "<", "u", "n", "i", "t", "N", "u", "m", "e", "r",
    "a", "t", "o", "r", ">", "<", "m", "e", "a", "s", "u", "r", "e", ">", "x", "<", "/", "m",
    "e", "a", "s", "u", "r", "e", ">", "<", "/", "u", "n", "i", "t", "N", "u", "m", "e", "r",
    "a", "t", "o", "r", ">", "<", "u", "n", "i", "t", "D", "e", "n", "o", "m", "i", "n", "a",
    "t", "o", "r", ">", "<", "m", "e", "a", "s", "u", "r", "e", ">", "y", "<", "/", "m", "e",
    "a", "s", "u", "r", "e", ">", "<", "/", "u", "n", "i", "t", "D", "e", "n", "o", "m", "i",
    "n", "a", "t", "o", "r", ">", "<", "/", "d", "i", "v", "i", "d", "e", ">">>,
    \* 5: </unit>
    <<"<", "/", "u", "n", "i", "t", ">">>
  >>

\* everything else the top-level loop dispatches on
MISC_PIECES ==
  <<
    \* 1: <?xml version="1.0"?>\n
    <<"<", "?", "x", "m", "l", " ", "v", "e", "r", "s", "i", "o", "n", "=", "\"", "1", ".", "0",
    "\"", "?", ">", "\n">>,
    \* 2: <!-- c -->
    <<"<", "!", "-", "-", " ", "c", " ", "-", "-", ">">>,
    \* 3: <!DOCTYPE x>
    <<"<", "!", "D", "O", "C", "T", "Y", "P", "E", " ", "x", ">">>,
    \* 4: <xbrl xmlns="u" xmlns:a="v">
    <<"<", "x", "b", "r", "l", " ", "x", "m", "l", "n", "s", "=", "\"", "u", "\"", " ", "x",
    "m", "l", "n", "s", ":", "a", "=", "\"", "v", "\"", ">">>,
    \* 5: <schemaRef href="h"/>
    <<"<", "s", "c", "h", "e", "m", "a", "R", "e", "f", " ", "h", "r", "e", "f", "=", "\"", "h",
    "\"", "/", ">">>,
    \* 6: <link:x><y/><z>t</z></link:x>
    <<"<", "l", "i", "n", "k", ":", "x", ">", "<", "y", "/", ">", "<", "z", ">", "t", "<", "/",
    "z", ">", "<", "/", "l", "i", "n", "k", ":", "x", ">">>,
    \* 7: <![CDATA[q]]>
    <<"<", "!", "[", "C", "D", "A", "T", "A", "[", "q", "]", "]", ">">>,
    \* 8: <
    <<"<">>,
    \* 9: </xbrl>
    <<"<", "/", "x", "b", "r", "l", ">">>,
    \* 10: <footnoteLink role="r"><footnote label="n1" lang="en">N</footnote><footnoteArc from="f1" to="n1"/><footnote id="n2">M</footnote></footnoteLink>
    <<"<", "f", "o", "o", "t", "n", "o", "t", "e", "L", "i", "n", "k", " ", "r", "o", "l", "e",
    "=", "\"", "r", "\"", ">", "<", "f", "o", "o", "t", "n", "o", "t", "e", " ", "l", "a", "b",
    "e", "l", "=", "\"", "n", "1", "\"", " ", "l", "a", "n", "g", "=", "\"", "e", "n", "\"",
    ">", "N", "<", "/", "f", "o", "o", "t", "n", "o", "t", "e", ">", "<", "f", "o", "o", "t",
    "n", "o", "t", "e", "A", "r", "c", " ", "f", "r", "o", "m", "=", "\"", "f", "1", "\"", " ",
    "t", "o", "=", "\"", "n", "1", "\"", "/", ">", "<", "f", "o", "o", "t", "n", "o", "t", "e",
    " ", "i", "d", "=", "\"", "n", "2", "\"", ">", "M", "<", "/", "f", "o", "o", "t", "n", "o",
    "t", "e", ">", "<", "/", "f", "o", "o", "t", "n", "o", "t", "e", "L", "i", "n", "k", ">">>,
    \* 11:  txt 
    <<" ", "t", "x", "t", " ">>,
    \* 12: <xbrli:context id="c2"><entity><identifier>E</identifier><segment><explicitMember dimension="d">m</explicitMember><!-- c --><typedMember dimension="e"><v>1</v></typedMember></segment></entity><period><startDate>a</startDate><endDate>b</endDate><forever/></period><scenario/></xbrli:context>
    <<"<", "x", "b", "r", "l", "i", ":", "c", "o", "n", "t", "e", "x", "t", " ", "i", "d", "=",
    "\"", "c", "2", "\"", ">", "<", "e", "n", "t", "i", "t", "y", ">", "<", "i", "d", "e", "n",
    "t", "i", "f", "i", "e", "r", ">", "E", "<", "/", "i", "d", "e", "n", "t", "i", "f", "i",
    "e", "r", ">", "<", "s", "e", "g", "m", "e", "n", "t", ">", "<", "e", "x", "p", "l", "i",
    "c", "i", "t", "M", "e", "m", "b", "e", "r", " ", "d", "i", "m", "e", "n", "s", "i", "o",
    "n", "=", "\"", "d", "\"", ">", "m", "<", "/", "e", "x", "p", "l", "i", "c", "i", "t", "M",
    "e", "m", "b", "e", "r", ">", "<", "!", "-", "-", " ", "c", " ", "-", "-", ">", "<", "t",
    "y", "p", "e", "d", "M", "e", "m", "b", "e", "r", " ", "d", "i", "m", "e", "n", "s", "i",
    "o", "n", "=", "\"", "e", "\"", ">", "<", "v", ">", "1", "<", "/", "v", ">", "<", "/", "t",
    "y", "p", "e", "d", "M", "e", "m", "b", "e", "r", ">", "<", "/", "s", "e", "g", "m", "e",
    "n", "t", ">", "<", "/", "e", "n", "t", "i", "t", "y", ">", "<", "p", "e", "r", "i", "o",
    "d", ">", "<", "s", "t", "a", "r", "t", "D", "a", "t", "e", ">", "a", "<", "/", "s", "t",
    "a", "r", "t", "D", "a", "t", "e", ">", "<", "e", "n", "d", "D", "a", "t", "e", ">", "b",
    "<", "/", "e", "n", "d", "D", "a", "t", "e", ">", "<", "f", "o", "r", "e", "v", "e", "r",
    "/", ">", "<", "/", "p", "e", "r", "i", "o", "d", ">", "<", "s", "c", "e", "n", "a", "r",
    "i", "o", "/", ">", "<", "/", "x", "b", "r", "l", "i", ":", "c", "o", "n", "t", "e", "x",
    "t", ">">>
  >>

\* <footnoteLink role="r">
LINK_OPEN ==
    <<"<", "f", "o", "o", "t", "n", "o", "t", "e", "L", "i", "n", "k", " ", "r", "o", "l", "e",
    "=", "\"", "r", "\"", ">">>

\* </footnoteLink>
LINK_CLOSE ==
    <<"<", "/", "f", "o", "o", "t", "n", "o", "t", "e", "L", "i", "n", "k", ">">>

\* the children of a footnoteLink: footnotes keyed by label, with and without
\* an id before it, and arcs to them and to no footnote
FOOTNOTE_PIECES ==
  <<
    \* 1: <footnote label="n1">N</footnote>
    <<"<", "f", "o", "o", "t", "n", "o", "t", "e", " ", "l", "a", "b", "e", "l", "=", "\"",
    "n", "1", "\"", ">", "N", "<", "/", "f", "o", "o", "t", "n", "o", "t", "e", ">">>,
    \* 2: <footnote id="n2" label="n3">M</footnote>
    <<"<", "f", "o", "o", "t", "n", "o", "t", "e", " ", "i", "d", "=", "\"", "n", "2", "\"",
    " ", "l", "a", "b", "e", "l", "=", "\"", "n", "3", "\"", ">", "M", "<", "/", "f", "o", "o",
    "t", "n", "o", "t", "e", ">">>,
    \* 3: <footnoteArc from="f1" to="n1"/>
    <<"<", "f", "o", "o", "t", "n", "o", "t", "e", "A", "r", "c", " ", "f", "r", "o", "m", "=",
    "\"", "f", "1", "\"", " ", "t", "o", "=", "\"", "n", "1", "\"", "/", ">">>,
    \* 4: <footnoteArc from="f2" to="n1"/>
    <<"<", "f", "o", "o", "t", "n", "o", "t", "e", "A", "r", "c", " ", "f", "r", "o", "m", "=",
    "\"", "f", "2", "\"", " ", "t", "o", "=", "\"", "n", "1", "\"", "/", ">">>,
    \* 5: <footnoteArc from="f3" to="n3"/>
    <<"<", "f", "o", "o", "t", "n", "o", "t", "e", "A", "r", "c", " ", "f", "r", "o", "m", "=",
    "\"", "f", "3", "\"", " ", "t", "o", "=", "\"", "n", "3", "\"", "/", ">">>,
    \* 6: <footnoteArc from="f4" to="n9"/>
    <<"<", "f", "o", "o", "t", "n", "o", "t", "e", "A", "r", "c", " ", "f", "r", "o", "m", "=",
    "\"", "f", "4", "\"", " ", "t", "o", "=", "\"", "n", "9", "\"", "/", ">">>
  >>

RECURSIVE concat(_)
concat(pieces) ==
    IF pieces = <<>> THEN <<>> ELSE Head(pieces) \o concat(Tail(pieces))

\* the buffers prefix \o p1 \o ... \o pk \o suffix, for k <= n pieces of the family
Buffers(prefix, family, suffix, n) ==
    UNION { { prefix \o concat([i \in 1..k |-> family[choice[i]]]) \o suffix :
                choice \in [1..k -> 1..Len(family)] } : k \in 0..n }

MaxTuplePieces == 4
MaxFactPieces == 2
MaxContextPieces == 4
MaxUnitPieces == 4
MaxMiscPieces == 3
MaxFootnotePieces == 3

Inputs ==
    Buffers(ROOT_OPEN \o CONTEXT_C1 \o UNIT_U1, TUPLE_PIECES, ROOT_CLOSE, MaxTuplePieces)
    \cup Buffers(ROOT_OPEN \o CONTEXT_C1 \o UNIT_U1, FACT_PIECES, ROOT_CLOSE, MaxFactPieces)
    \cup Buffers(ROOT_OPEN, CONTEXT_PIECES, ROOT_CLOSE, MaxContextPieces)
    \cup Buffers(ROOT_OPEN, UNIT_PIECES, ROOT_CLOSE, MaxUnitPieces)
    \cup Buffers(<<>>, MISC_PIECES, <<>>, MaxMiscPieces)
    \cup Buffers(ROOT_OPEN \o LINK_OPEN, FOOTNOTE_PIECES, LINK_CLOSE \o ROOT_CLOSE,
                 MaxFootnotePieces)

\* Document::new
empty_document ==
    [facts |-> <<>>, contexts |-> <<>>, units |-> <<>>, tuples |-> <<>>,
     footnotes |-> <<>>, namespaces |-> <<>>, schema_ref |-> NoneOpt]

\* FullXbrlParser::new over a fresh ArenaAllocator, on any host
Init ==
    /\ data \in Inputs
    /\ pos = 0
    /\ avx2 \in BOOLEAN
    /\ in_xbrl_root = FALSE
    /\ current_tuple_stack = <<>>
    /\ document = empty_document
    /\ interner = <<>>
    /\ ret = Running
    /\ last = "new"
    /\ calls = <<>>
    /\ linkbase = new_linkbase
    /\ cache = new_cache(0)

Spec == Init /\ [][Next]_vars

----------------------------------------------------------------------------
(* Value coercion on its own: parse_fact from "Add to document facts" on, for *)
(* a fact outside every tuple whose value content is the whole buffer, with   *)
(* either nil flag, on an interner that holds the fact's concept or nothing   *)

\* the bytes that number, fraction and parenthesized values are made of
VALUE_BYTES == {"(", ")", "-", "5", ".", "/"}

MaxValueLen == 4

\* words, longer numbers and signed forms that the short texts leave out
VALUE_WORDS ==
    {<<"1", "2", "3", "4">>,
     <<"(", "5", "0", "0", ")">>,
     <<"(", "-", "5", ")">>,
     <<"(", "+", "5", ")">>,
     <<"(", "1", ".", "5", ")">>,
     <<"(", "a", "b", "c", ")">>,
     <<"(", "i", "n", "f", ")">>,
     <<"(", "n", "a", "n", ")">>,
     <<"t", "r", "u", "e">>,
     <<"f", "a", "l", "s", "e">>,
     <<"(", "t", "r", "u", "e", ")">>,
     <<"1", "2", ".", "5">>,
     <<"1", "e", "3">>,
     <<"(", "1", "e", "3", ")">>,
     <<"i", "n", "f">>,
     <<"N", "a", "N">>,
     <<"a", "b", "c">>,
     <<"1", " ", "/", " ", "2">>,
     <<" ", "5">>,
     <<"-", "0">>}

ValueTexts ==
    UNION {[1..n -> VALUE_BYTES] : n \in 0..MaxValueLen} \cup VALUE_WORDS

ValueInit ==
    /\ data \in ValueTexts
    /\ pos = 0
    /\ avx2 = FALSE
    /\ in_xbrl_root = TRUE
    /\ current_tuple_stack = <<>>
    /\ document = empty_document
    /\ interner \in {<<>>, <<<<"a", ":", "x">>>>}
    /\ ret = Running
    /\ last = "new"
    /\ calls = <<>>
    /\ linkbase = new_linkbase
    /\ cache = new_cache(0)

\* the Fact of parse_fact with the value text and nil flag given and no
\* decimals or precision, coerced and pushed to the columnar facts
CoerceValue ==
    /\ last = "new"
    /\ last' = "parse_fact_value"
    /\ \E is_nil \in BOOLEAN :
           LET pushed(coerced) ==
                   /\ document' = [document EXCEPT !.facts = Append(@,
                          compact_fact([nil |-> is_nil, precision |-> NoneOpt,
                                        decimals |-> NoneOpt],
                                       0, 0, 0, coerced))]
                   /\ interner' = coerced.strings
           IN  pushed(parse_fact_value(data, is_nil, interner))
    /\ UNCHANGED <<calls, linkbase, cache, data, pos, avx2, in_xbrl_root, current_tuple_stack, ret>>

ValueNext == CoerceValue

ValueSpec == ValueInit /\ [][ValueNext]_vars

----------------------------------------------------------------------------
(* Properties of the top-level loop, checked under Spec *)

\* C1: when a closing tag matches the name of the tuple on top of the
\* open-tuple stack, that tuple is popped; with a tuple still open it is
\* appended to the facts of the new top and document.tuples is unchanged,
\* and it is pushed to document.tuples only if the stack became empty
C1_ClosedTupleGoesToParentOrDocument ==
    [][LET stack == current_tuple_stack
           rest == SubSeq(stack, 1, Len(stack) - 1)
       IN  /\ (/\ at_closing_tag
               /\ ~is_root_tag(closing_name.val)
               /\ closes_top_tuple(closing_name.val, stack))
              => IF rest = <<>>
                 THEN /\ current_tuple_stack' = <<>>
                      /\ document'.tuples = Append(document.tuples, stack[Len(stack)])
                 ELSE /\ current_tuple_stack' =
                             [rest EXCEPT ![Len(rest)].facts =
                                 Append(@, [kind |-> "Tuple", tuple |-> stack[Len(stack)]])]
                      /\ document'.tuples = document.tuples
           /\ document'.tuples # document.tuples
              => /\ Len(stack) = 1
                 /\ current_tuple_stack' = <<>>
                 /\ document'.tuples = Append(document.tuples, stack[1])
      ]_vars

\* a tuple holding a fact was closed inside an open tuple: it sits in its
\* parent, and the document has no tuple
C1_NestedTupleClosed ==
    /\ last = "close_tuple"
    /\ Len(current_tuple_stack) = 1
    /\ document.tuples = <<>>
    /\ \E i \in 1..Len(current_tuple_stack[1].facts) :
           /\ current_tuple_stack[1].facts[i].kind = "Tuple"
           /\ current_tuple_stack[1].facts[i].tuple.facts # <<>>

\* C2: a fact (an element carrying contextRef) parsed while the open-tuple
\* stack is non-empty is appended to the top tuple and the columnar facts are
\* unchanged; parsed while the stack is empty it is appended to the columnar
\* facts and to no tuple
C2_FactGoesToTopTupleOrColumns ==
    [][LET r == parse_fact(element.pos, element.val)
           stack == current_tuple_stack
       IN  (/\ dispatches("fact_or_tuple")
            /\ ~is_tuple(element.pos)
            /\ r.ok
            /\ is_some(r.val))
           => IF stack # <<>>
              THEN /\ current_tuple_stack' =
                          [stack EXCEPT ![Len(stack)].facts =
                              Append(@, [kind |-> "Fact", fact |-> unwrap(r.val)])]
                   /\ document'.facts = document.facts
              ELSE /\ Len(document'.facts) = Len(document.facts) + 1
                   /\ SubSeq(document'.facts, 1, Len(document.facts)) = document.facts
                   /\ current_tuple_stack' = <<>>
                   /\ document'.tuples = document.tuples
      ]_vars

\* C3: a fact outside every tuple whose contextRef matches no context parsed
\* so far does not abort the parse, and the fact is kept in the document
C3_UnmatchedContextRefIsKept ==
    [][LET r == parse_fact(element.pos, element.val)
       IN  (/\ dispatches("fact_or_tuple")
            /\ ~is_tuple(element.pos)
            /\ r.ok
            /\ is_some(r.val)
            /\ current_tuple_stack = <<>>
            /\ \A i \in 1..Len(document.contexts) :
                   document.contexts[i].id # unwrap(r.val).context_ref)
           => /\ ret'.kind # "Err"
              /\ Len(document'.facts) = Len(document.facts) + 1
      ]_vars

\* C4: a context or unit opening tag inside the root without an id attribute
\* makes the parse return a Parse error and no Document, whatever was parsed
\* before it
C4_MissingIdIsFatal ==
    [][LET attrs == parse_attributes(element.pos)
       IN  (/\ dispatches("parse_context") \/ dispatches("parse_unit")
            /\ attrs.ok
            /\ \A i \in 1..Len(attrs.val) : attrs.val[i][1] # lit.id)
           => /\ ret' = Failed("Parse")
              /\ document' = document
      ]_vars

\* the parse failed at a unit tag without an id, after a unit was committed
C4_FailedAtUnitWithoutId ==
    /\ ret = Failed("Parse")
    /\ last = "parse_unit"
    /\ document.units # <<>>
    /\ element.ok
    /\ parse_attributes(element.pos).ok
    /\ \A i \in 1..Len(parse_attributes(element.pos).val) :
           parse_attributes(element.pos).val[i][1] # lit.id

\* C5: after a context element with an id is handled, exactly one context is
\* appended to document.contexts if and only if both an entity child and a
\* period child were parsed inside it; otherwise the contexts are unchanged,
\* and in both cases the parse goes on without error
C5_ContextCommittedIffEntityAndPeriod ==
    [][LET attrs == parse_attributes(element.pos)
           children == parse_context_loop(skip_to_tag_end(attrs.pos).pos,
                           [entity |-> NoneOpt, period |-> NoneOpt, scenario |-> NoneOpt])
       IN  (/\ dispatches("parse_context")
            /\ attrs.ok
            /\ \E i \in 1..Len(attrs.val) : attrs.val[i][1] = lit.id
            /\ skip_to_tag_end(attrs.pos).ok
            /\ children.ok)
           => /\ ret'.kind # "Err"
              /\ IF is_some(children.val.entity) /\ is_some(children.val.period)
                 THEN /\ Len(document'.contexts) = Len(document.contexts) + 1
                      /\ SubSeq(document'.contexts, 1, Len(document.contexts))
                             = document.contexts
                      /\ document'.contexts[Len(document'.contexts)].entity
                             = unwrap(children.val.entity)
                      /\ document'.contexts[Len(document'.contexts)].period
                             = unwrap(children.val.period)
                 ELSE document'.contexts = document.contexts
      ]_vars

\* a context with an entity alone was handled and dropped, and a context with
\* an entity and a period was not reached: the parse goes on with no context
C5_ContextWithoutPeriodDropped ==
    /\ last = "parse_context"
    /\ ret.kind # "Err"
    /\ document.contexts = <<>>
    /\ pos > Len(ROOT_OPEN) + Len(CONTEXT_PIECES[1]) + Len(CONTEXT_PIECES[3])
    /\ SubSeq(data, 1, Len(ROOT_OPEN) + Len(CONTEXT_PIECES[1]) + Len(CONTEXT_PIECES[3]))
           = ROOT_OPEN \o CONTEXT_PIECES[1] \o CONTEXT_PIECES[3]

\* C6: in a unit with measure children and a divide child the shape met first
\* decides the committed unit's type: measure before divide commits a Simple
\* unit, divide before measure a Divide unit
C6_FirstUnitShapeWins ==
    [][LET r == parse_unit(element.pos)
           body == slice(element.pos, r.pos)
           measure_at == find_str(body, <<"<">> \o lit.measure)
           divide_at == find_str(body, <<"<">> \o lit.divide)
           committed == document'.units[Len(document'.units)]
       IN  (/\ dispatches("parse_unit")
            /\ r.ok
            /\ is_some(r.val)
            /\ is_some(measure_at)
            /\ is_some(divide_at))
           => /\ Len(document'.units) = Len(document.units) + 1
              /\ committed.unit_type.kind =
                     IF unwrap(measure_at) < unwrap(divide_at) THEN "Simple" ELSE "Divide"
      ]_vars

\* C7: a self-closing fact element (its tag ends in "/>" and carries
\* contextRef) yields empty value content whatever follows the tag, and so
\* does a fact whose nil flag is set
C7_SelfClosingOrNilFactIsEmpty ==
    LET attrs == parse_attributes(element.pos)
        r == parse_fact(element.pos, element.val)
    IN  (/\ dispatches("fact_or_tuple")
         /\ attrs.ok
         /\ \E i \in 1..Len(attrs.val) : attrs.val[i][1] = lit.contextRef
         /\ \/ peek(attrs.pos - 1) = "/" /\ peek(attrs.pos) = ">"
            \/ attrs_is_nil(attrs.val))
        => /\ r.ok
           /\ is_some(r.val)
           /\ unwrap(r.val).value = <<>>

----------------------------------------------------------------------------
(* Properties of value coercion, checked under ValueSpec *)

\* C8: value coercion with the nil flag set returns Nil for every text,
\* numeric, boolean, fraction-shaped or empty: the nil test comes before every
\* other trial, so nothing is interned either
C8_NilFlagGivesNil ==
    [][(/\ last' = "parse_fact_value"
        /\ "NIL" \in document'.facts[Len(document'.facts)].flags)
       => /\ document'.facts[Len(document'.facts)].value_type = "Nil"
          /\ document'.facts[Len(document'.facts)].value = [integer |-> 0]
          /\ interner' = interner
      ]_vars

\* the text "(500)" was coerced with the nil flag set, and gave Nil
C8_NumericTextWithNilFlag ==
    /\ last = "parse_fact_value"
    /\ data = <<"(", "5", "0", "0", ")">>
    /\ "NIL" \in document.facts[1].flags
    /\ document.facts[1].value_type = "Nil"

\* C9: text that is a plain integer literal with no fractional part, such as
\* "1234", coerces to Integer with that value, not to Decimal
C9_IntegerLiteralGivesInteger ==
    (/\ last = "parse_fact_value"
     /\ "NIL" \notin document.facts[Len(document.facts)].flags
     /\ data # <<>>
     /\ leading_digits(data) = Len(data))
    => /\ document.facts[Len(document.facts)].value_type = "Integer"
       /\ document.facts[Len(document.facts)].value = [integer |-> digits_value(data)]

\* C10, as stated: text of the form "(N)" where N parses as a number coerces
\* to Decimal(-N); when N does not parse as a number the result is Text
\* holding the original text, parentheses included
C10_ParenthesizedNumberIsNegated ==
    LET fact == document.facts[Len(document.facts)]
        N == SubSeq(data, 2, Len(data) - 1)
    IN  (/\ last = "parse_fact_value"
         /\ "NIL" \notin fact.flags
         /\ Len(data) >= 2
         /\ data[1] = "("
         /\ data[Len(data)] = ")")
        => IF is_some(parse_f64(N))
           THEN /\ fact.value_type = "Decimal"
                /\ fact.value = [decimal |-> [unwrap(parse_f64(N)) EXCEPT !.neg = ~@]]
           ELSE /\ fact.value_type = "String"
                /\ get_interned(interner, fact.value.string_id) = Some(data)

\* C10, narrowed: text of the form "(N)" where N parses as a number and has no
\* sign of its own coerces to Decimal(-N); when N does not parse as a number,
\* or begins with a sign, the result is Text holding the original text,
\* parentheses included
C10_ParenthesizedUnsignedNumberIsNegated ==
    LET fact == document.facts[Len(document.facts)]
        N == SubSeq(data, 2, Len(data) - 1)
    IN  (/\ last = "parse_fact_value"
         /\ "NIL" \notin fact.flags
         /\ Len(data) >= 2
         /\ data[1] = "("
         /\ data[Len(data)] = ")")
        => IF is_some(parse_f64(N)) /\ N[1] \notin {"+", "-"}
           THEN /\ fact.value_type = "Decimal"
                /\ fact.value = [decimal |-> [unwrap(parse_f64(N)) EXCEPT !.neg = ~@]]
           ELSE /\ fact.value_type = "String"
                /\ get_interned(interner, fact.value.string_id) = Some(data)

\* "(500)" was coerced to Decimal(-500.0)
C10_MinusFiveHundred ==
    /\ last = "parse_fact_value"
    /\ data = <<"(", "5", "0", "0", ")">>
    /\ document.facts[1].value_type = "Decimal"
    /\ document.facts[1].value =
           [decimal |-> [kind |-> "finite", neg |-> TRUE, mant |-> 5, exp |-> 2]]

\* C11: coercion tries nil, empty text, fraction, decimal, integer, boolean and
\* text in this order and the first trial that accepts wins: text "a/b" with
\* both sides numeric and no space gives a Fraction holding the string "a/b",
\* exactly "true" or "false" gives Boolean, and text that no trial accepts
\* gives Text holding the original content
C11_FirstAcceptingTrialWins ==
    LET fact == document.facts[Len(document.facts)]
        slash == CHOOSE i \in 1..Len(data) :
                     data[i] = "/" /\ \A j \in 1..(i - 1) : data[j] # "/"
        fraction_shaped ==
            /\ \E i \in 1..Len(data) : data[i] = "/"
            /\ \A i \in 1..Len(data) : data[i] # " "
            /\ is_some(parse_f64(SubSeq(data, 1, slash - 1)))
            /\ is_some(parse_f64(SubSeq(data, slash + 1, Len(data))))
        parenthesized == Len(data) >= 2 /\ data[1] = "(" /\ data[Len(data)] = ")"
        number == parse_f64(IF parenthesized
                            THEN <<"-">> \o SubSeq(data, 2, Len(data) - 1)
                            ELSE data)
        held == get_interned(interner, fact.value.string_id)
    IN  last = "parse_fact_value"
        => IF "NIL" \in fact.flags
           THEN fact.value_type = "Nil"
           ELSE IF data = <<>>
           THEN fact.value_type = "String" /\ fact.value = [string_id |-> 0]
           ELSE IF fraction_shaped
           THEN fact.value_type = "Fraction" /\ held = Some(data)
           ELSE IF is_some(number)
           THEN fact.value_type = "Decimal" /\ fact.value = [decimal |-> unwrap(number)]
           ELSE IF data \in {<<"t", "r", "u", "e">>, <<"f", "a", "l", "s", "e">>}
           THEN /\ fact.value_type = "Boolean"
                /\ fact.value = [boolean |-> IF data[1] = "t" THEN 1 ELSE 0]
           ELSE fact.value_type = "String" /\ held = Some(data)

\* "5/5" was coerced to a Fraction that holds the text "5/5"
C11_FractionHoldsItsText ==
    /\ last = "parse_fact_value"
    /\ data = <<"5", "/", "5">>
    /\ document.facts[1].value_type = "Fraction"
    /\ get_interned(interner, document.facts[1].value.string_id) = Some(data)

----------------------------------------------------------------------------
(* Properties of attribute parsing, checked under Spec *)

\* C12: an attribute name that is not followed by '=' (as in
\* <p:x contextRef="c" flag>) makes the parse return a fatal Parse error
C12_AttributeWithoutEqualsIsFatal ==
    [][LET tag_end == CHOOSE g \in (element.pos + 1)..Len(data) :
                          data[g] = ">" /\ \A j \in (element.pos + 1)..(g - 1) : data[j] # ">"
           name_start == CHOOSE s \in (element.pos + 1)..tag_end :
                             /\ data[s] = " "
                             /\ \A j \in (s + 1)..(tag_end - 1) : data[j] # " "
           \* the last token of the tag is a name with no '=' and no value
           bare_name ==
               /\ \E g \in (element.pos + 1)..Len(data) : data[g] = ">"
               /\ \E s \in (element.pos + 1)..tag_end : data[s] = " "
               /\ name_start + 1 < tag_end
               /\ \A j \in (name_start + 1)..(tag_end - 1) :
                      data[j] \notin {"=", "\"", "'", "/"}
       IN  (/\ \/ dispatches("fact_or_tuple")
               \/ dispatches("parse_context")
               \/ dispatches("parse_unit")
            /\ bare_name)
           => ret' = Failed("Parse")
      ]_vars

\* C13: an attribute value whose opening quote has no closing quote before the
\* end of the input makes attribute parsing fail, and the parse return a fatal
\* Parse error and no Document
C13_UnterminatedQuoteIsFatal ==
    [][LET unterminated ==
               \E q \in (element.pos + 2)..Len(data) :
                   /\ data[q] \in {"\"", "'"}
                   /\ data[q - 1] = "="
                   /\ \A j \in (element.pos + 1)..(q - 1) : data[j] \notin {"\"", "'", ">"}
                   /\ \A j \in (q + 1)..Len(data) : data[j] # data[q]
       IN  (/\ \/ dispatches("fact_or_tuple")
               \/ dispatches("parse_context")
               \/ dispatches("parse_unit")
            /\ unterminated)
           => /\ parse_attributes(element.pos) = Err("Parse")
              /\ ret' = Failed("Parse")
              /\ document' = document
      ]_vars

\* the parse failed at a fact whose contextRef value runs to the end of the
\* input, after a context and a unit were committed
C13_FailedAtUnterminatedContextRef ==
    /\ ret = Failed("Parse")
    /\ last \in {"parse_fact", "parse_tuple"}
    /\ document.contexts # <<>>
    /\ document.units # <<>>
    /\ element.ok
    /\ \E q \in (element.pos + 2)..Len(data) :
           /\ data[q] = "\""
           /\ data[q - 1] = "="
           /\ \A j \in (element.pos + 1)..(q - 1) : data[j] \notin {"\"", "'", ">"}
           /\ \A j \in (q + 1)..Len(data) : data[j] # "\""

----------------------------------------------------------------------------
(* simple_parser.rs: the Parser that lib.rs exports and main.rs runs.  It     *)
(* counts opening-tag prefixes in the text and returns a Document of that     *)
(* many placeholder facts, contexts and units.                                *)

\* a byte that is no UTF-8, and the character from_utf8_lossy puts in its place
INVALID_BYTE == "0xFF"
REPLACEMENT_CHARACTER == "U+FFFD"

\* String::from_utf8_lossy, on ASCII text with invalid bytes
from_utf8_lossy(bytes) ==
    [i \in 1..Len(bytes) |->
        IF bytes[i] = INVALID_BYTE THEN REPLACEMENT_CHARACTER ELSE bytes[i]]

\* text.matches(pattern).count(); no pattern used here overlaps itself
matches_count(text, pattern) ==
    Cardinality({i \in 1..(Len(text) - Len(pattern) + 1) :
                    SubSeq(text, i, i + Len(pattern) - 1) = pattern})

\* format!("{}", n)
RECURSIVE to_string(_)
to_string(n) ==
    IF n < 10 THEN <<DIGITS[n + 1]>>
    ELSE to_string(n \div 10) \o <<DIGITS[(n % 10) + 1]>>

\* the Context pushed by "Add dummy contexts"
dummy_context(i) ==
    [id |-> <<"c", "t", "x">> \o to_string(i),
     entity |-> [identifier |-> <<"0", "0", "0", "0", "0", "0", "0", "0", "0", "0">>,
                 scheme |-> <<"h", "t", "t", "p", ":", "/", "/", "w", "w", "w", ".", "s",
                            "e", "c", ".", "g", "o", "v", "/", "C", "I", "K">>,
                 segment |-> NoneOpt],
     period |-> [kind |-> "Instant", date |-> <<"2", "0", "2", "3", "-", "1", "2", "-", "3", "1">>],
     scenario |-> NoneOpt]

\* the Unit pushed by "Add dummy units"
dummy_unit(i) ==
    [id |-> <<"u", "n", "i", "t">> \o to_string(i),
     unit_type |-> [kind |-> "Simple",
                    measures |-> <<[namespace |-> <<"i", "s", "o", "4", "2", "1", "7">>,
                                    name |-> <<"U", "S", "D">>]>>]]

\* the Document that simple_parser::Parser::parse_bytes returns for the bytes
simple_parse_bytes(bytes) ==
    LET doc(fact_count, context_count, unit_count) ==
            [facts |-> [concept_ids |-> [i \in 1..fact_count |-> 0],
                        context_ids |-> [i \in 1..fact_count |-> 0],
                        unit_ids |-> [i \in 1..fact_count |-> 0],
                        values |-> [i \in 1..fact_count |-> [kind |-> "Text", text |-> <<>>]],
                        decimals |-> [i \in 1..fact_count |-> NoneOpt],
                        ids |-> [i \in 1..fact_count |-> NoneOpt],
                        footnote_refs |-> <<>>],
             contexts |-> [i \in 1..context_count |-> dummy_context(i - 1)],
             units |-> [i \in 1..unit_count |-> dummy_unit(i - 1)],
             tuples |-> <<>>, footnotes |-> <<>>, presentation_links |-> <<>>,
             calculation_links |-> <<>>, definition_links |-> <<>>, label_links |-> <<>>,
             reference_links |-> <<>>, custom_links |-> <<>>, role_types |-> <<>>,
             arcrole_types |-> <<>>, schemas |-> <<>>, dimensions |-> <<>>,
             concept_names |-> <<>>]
        counted(text) ==
            doc(matches_count(text, <<"<", "u", "s", "-", "g", "a", "a", "p", ":">>)
                    + matches_count(text, <<"<", "d", "e", "i", ":">>)
                    + matches_count(text, <<"<", "i", "f", "r", "s", ":">>),
                matches_count(text, <<"<", "c", "o", "n", "t", "e", "x", "t", " ">>)
                    + matches_count(text, <<"<", "x", "b", "r", "l", "i", ":",
                                            "c", "o", "n", "t", "e", "x", "t">>),
                matches_count(text, <<"<", "u", "n", "i", "t", " ">>)
                    + matches_count(text, <<"<", "x", "b", "r", "l", "i", ":",
                                            "u", "n", "i", "t">>))
    IN  counted(from_utf8_lossy(bytes))

\* FactStorage::len
facts_len(facts) == Len(facts.concept_ids)

\* whole elements: contexts, units with and without a divide, with and without
\* the xbrli prefix, facts of four prefixes, and a byte that is no UTF-8
SIMPLE_PIECES ==
  <<
    \* 1: <context id="c1"><entity><identifier scheme="s">E</identifier></entity><period><instant>d</instant></period></context>
    <<"<", "c", "o", "n", "t", "e", "x", "t", " ", "i", "d", "=", "\"", "c", "1", "\"",
    ">", "<", "e", "n", "t", "i", "t", "y", ">", "<", "i", "d", "e", "n", "t", "i", "f",
    "i", "e", "r", " ", "s", "c", "h", "e", "m", "e", "=", "\"", "s", "\"", ">", "E", "<",
    "/", "i", "d", "e", "n", "t", "i", "f", "i", "e", "r", ">", "<", "/", "e", "n", "t",
    "i", "t", "y", ">", "<", "p", "e", "r", "i", "o", "d", ">", "<", "i", "n", "s", "t",
    "a", "n", "t", ">", "d", "<", "/", "i", "n", "s", "t", "a", "n", "t", ">", "<", "/",
    "p", "e", "r", "i", "o", "d", ">", "<", "/", "c", "o", "n", "t", "e", "x", "t", ">">>,
    \* 2: <xbrli:context id="c2"><xbrli:entity><xbrli:identifier scheme="s">E</xbrli:identifier></xbrli:entity><xbrli:period><xbrli:forever/></xbrli:period></xbrli:context>
    <<"<", "x", "b", "r", "l", "i", ":", "c", "o", "n", "t", "e", "x", "t", " ", "i", "d",
    "=", "\"", "c", "2", "\"", ">", "<", "x", "b", "r", "l", "i", ":", "e", "n", "t", "i",
    "t", "y", ">", "<", "x", "b", "r", "l", "i", ":", "i", "d", "e", "n", "t", "i", "f",
    "i", "e", "r", " ", "s", "c", "h", "e", "m", "e", "=", "\"", "s", "\"", ">", "E", "<",
    "/", "x", "b", "r", "l", "i", ":", "i", "d", "e", "n", "t", "i", "f", "i", "e", "r",
    ">", "<", "/", "x", "b", "r", "l", "i", ":", "e", "n", "t", "i", "t", "y", ">", "<",
    "x", "b", "r", "l", "i", ":", "p", "e", "r", "i", "o", "d", ">", "<", "x", "b", "r",
    "l", "i", ":", "f", "o", "r", "e", "v", "e", "r", "/", ">", "<", "/", "x", "b", "r",
    "l", "i", ":", "p", "e", "r", "i", "o", "d", ">", "<", "/", "x", "b", "r", "l", "i",
    ":", "c", "o", "n", "t", "e", "x", "t", ">">>,
    \* 3: <unit id="u1"><measure>a:b</measure></unit>
    <<"<", "u", "n", "i", "t", " ", "i", "d", "=", "\"", "u", "1", "\"", ">", "<", "m",
    "e", "a", "s", "u", "r", "e", ">", "a", ":", "b", "<", "/", "m", "e", "a", "s", "u",
    "r", "e", ">", "<", "/", "u", "n", "i", "t", ">">>,
    \* 4: <unit id="u2"><divide><unitNumerator><measure>x</measure></unitNumerator><unitDenominator><measure>y</measure></unitDenominator></divide></unit>
    <<"<", "u", "n", "i", "t", " ", "i", "d", "=", "\"", "u", "2", "\"", ">", "<", "d",
    "i", "v", "i", "d", "e", ">", "<", "u", "n", "i", "t", "N", "u", "m", "e", "r", "a",
    "t", "o", "r", ">", "<", "m", "e", "a", "s", "u", "r", "e", ">", "x", "<", "/", "m",
    "e", "a", "s", "u", "r", "e", ">", "<", "/", "u", "n", "i", "t", "N", "u", "m", "e",
    "r", "a", "t", "o", "r", ">", "<", "u", "n", "i", "t", "D", "e", "n", "o", "m", "i",
    "n", "a", "t", "o", "r", ">", "<", "m", "e", "a", "s", "u", "r", "e", ">", "y", "<",
    "/", "m", "e", "a", "s", "u", "r", "e", ">", "<", "/", "u", "n", "i", "t", "D", "e",
    "n", "o", "m", "i", "n", "a", "t", "o", "r", ">", "<", "/", "d", "i", "v", "i", "d",
    "e", ">", "<", "/", "u", "n", "i", "t", ">">>,
    \* 5: <xbrli:unit id="u3"><xbrli:divide><xbrli:unitNumerator><xbrli:measure>x</xbrli:measure></xbrli:unitNumerator><xbrli:unitDenominator><xbrli:measure>y</xbrli:measure></xbrli:unitDenominator></xbrli:divide></xbrli:unit>
    <<"<", "x", "b", "r", "l", "i", ":", "u", "n", "i", "t", " ", "i", "d", "=", "\"", "u",
    "3", "\"", ">", "<", "x", "b", "r", "l", "i", ":", "d", "i", "v", "i", "d", "e", ">",
    "<", "x", "b", "r", "l", "i", ":", "u", "n", "i", "t", "N", "u", "m", "e", "r", "a",
    "t", "o", "r", ">", "<", "x", "b", "r", "l", "i", ":", "m", "e", "a", "s", "u", "r",
    "e", ">", "x", "<", "/", "x", "b", "r", "l", "i", ":", "m", "e", "a", "s", "u", "r",
    "e", ">", "<", "/", "x", "b", "r", "l", "i", ":", "u", "n", "i", "t", "N", "u", "m",
    "e", "r", "a", "t", "o", "r", ">", "<", "x", "b", "r", "l", "i", ":", "u", "n", "i",
    "t", "D", "e", "n", "o", "m", "i", "n", "a", "t", "o", "r", ">", "<", "x", "b", "r",
    "l", "i", ":", "m", "e", "a", "s", "u", "r", "e", ">", "y", "<", "/", "x", "b", "r",
    "l", "i", ":", "m", "e", "a", "s", "u", "r", "e", ">", "<", "/", "x", "b", "r", "l",
    "i", ":", "u", "n", "i", "t", "D", "e", "n", "o", "m", "i", "n", "a", "t", "o", "r",
    ">", "<", "/", "x", "b", "r", "l", "i", ":", "d", "i", "v", "i", "d", "e", ">", "<",
    "/", "x", "b", "r", "l", "i", ":", "u", "n", "i", "t", ">">>,
    \* 6: <us-gaap:Assets contextRef="c1" unitRef="u1" decimals="0">5</us-gaap:Assets>
    <<"<", "u", "s", "-", "g", "a", "a", "p", ":", "A", "s", "s", "e", "t", "s", " ", "c",
    "o", "n", "t", "e", "x", "t", "R", "e", "f", "=", "\"", "c", "1", "\"", " ", "u", "n",
    "i", "t", "R", "e", "f", "=", "\"", "u", "1", "\"", " ", "d", "e", "c", "i", "m", "a",
    "l", "s", "=", "\"", "0", "\"", ">", "5", "<", "/", "u", "s", "-", "g", "a", "a", "p",
    ":", "A", "s", "s", "e", "t", "s", ">">>,
    \* 7: <dei:Name contextRef="c1">n</dei:Name>
    <<"<", "d", "e", "i", ":", "N", "a", "m", "e", " ", "c", "o", "n", "t", "e", "x", "t",
    "R", "e", "f", "=", "\"", "c", "1", "\"", ">", "n", "<", "/", "d", "e", "i", ":", "N",
    "a", "m", "e", ">">>,
    \* 8: <ifrs:Equity contextRef="c2" unitRef="u3">7</ifrs:Equity>
    <<"<", "i", "f", "r", "s", ":", "E", "q", "u", "i", "t", "y", " ", "c", "o", "n", "t",
    "e", "x", "t", "R", "e", "f", "=", "\"", "c", "2", "\"", " ", "u", "n", "i", "t", "R",
    "e", "f", "=", "\"", "u", "3", "\"", ">", "7", "<", "/", "i", "f", "r", "s", ":", "E",
    "q", "u", "i", "t", "y", ">">>,
    \* 9: <a:x contextRef="c1" unitRef="u2">12</a:x>
    <<"<", "a", ":", "x", " ", "c", "o", "n", "t", "e", "x", "t", "R", "e", "f", "=", "\"",
    "c", "1", "\"", " ", "u", "n", "i", "t", "R", "e", "f", "=", "\"", "u", "2", "\"", ">",
    "1", "2", "<", "/", "a", ":", "x", ">">>,
    \* 10: the byte 0xFF
    <<INVALID_BYTE>>
  >>

MaxSimplePieces == 3

SimpleInputs == Buffers(ROOT_OPEN, SIMPLE_PIECES, ROOT_CLOSE, MaxSimplePieces)

\* Parser::new, about to parse any of the buffers
SimpleInit ==
    /\ data \in SimpleInputs
    /\ pos = 0
    /\ avx2 = FALSE
    /\ in_xbrl_root = FALSE
    /\ current_tuple_stack = <<>>
    /\ document = empty_document
    /\ interner = <<>>
    /\ ret = Running
    /\ last = "new"
    /\ calls = <<>>
    /\ linkbase = new_linkbase
    /\ cache = new_cache(0)

\* Parser::parse_bytes
ParseBytes ==
    /\ last = "new"
    /\ last' = "parse_bytes"
    /\ document' = simple_parse_bytes(data)
    /\ ret' = Returned(document')
    /\ UNCHANGED <<calls, linkbase, cache, data, pos, avx2, in_xbrl_root, current_tuple_stack, interner>>

----------------------------------------------------------------------------
(* Properties of the exported parser, checked under SimpleSpec *)

\* C14: in every Document the program returns, the parallel sequences of the
\* fact storage (concept ids, context indices, unit indices, values, decimals,
\* ids and footnote references) all have the length the storage reports as
\* its number of facts
C14_FactColumnsHaveEqualLength ==
    ret.kind = "Ok"
    => LET facts == ret.document.facts
       IN  /\ Len(facts.concept_ids) = facts_len(facts)
           /\ Len(facts.context_ids) = facts_len(facts)
           /\ Len(facts.unit_ids) = facts_len(facts)
           /\ Len(facts.values) = facts_len(facts)
           /\ Len(facts.decimals) = facts_len(facts)
           /\ Len(facts.ids) = facts_len(facts)
           /\ Len(facts.footnote_refs) = facts_len(facts)

\* C17: for a well-formed document whose contexts and units precede its facts,
\* the returned Document holds as many facts, contexts and units as the
\* document has fact, context and unit elements (1, 1 and 1 for one context,
\* one unit and one numeric fact), also when a unit is a divide unit with
\* numerator and denominator children
C17_CountsEqualElements ==
    LET occurrences(pattern) ==
            {i \in 1..(Len(data) - Len(pattern) + 1) :
                SubSeq(data, i, i + Len(pattern) - 1) = pattern}
        fact_elements == occurrences(<<" ", "c", "o", "n", "t", "e", "x", "t", "R", "e", "f", "=">>)
        context_elements == occurrences(<<"<", "/", "c", "o", "n", "t", "e", "x", "t", ">">>)
                                \cup occurrences(<<"<", "/", "x", "b", "r", "l", "i", ":",
                                                    "c", "o", "n", "t", "e", "x", "t", ">">>)
        unit_elements == occurrences(<<"<", "/", "u", "n", "i", "t", ">">>)
                             \cup occurrences(<<"<", "/", "x", "b", "r", "l", "i", ":",
                                                 "u", "n", "i", "t", ">">>)
        well_formed == \A i \in 1..Len(data) : data[i] # INVALID_BYTE
        facts_last == \A f \in fact_elements :
                          \A e \in context_elements \cup unit_elements : e < f
    IN  (ret.kind = "Ok" /\ well_formed /\ facts_last)
        => /\ facts_len(ret.document.facts) = Cardinality(fact_elements)
           /\ Len(ret.document.contexts) = Cardinality(context_elements)
           /\ Len(ret.document.units) = Cardinality(unit_elements)

----------------------------------------------------------------------------
(* The calls a program makes once parse has returned: the validator's readers *)
(* of the stored indices (validator.rs), and a second parse of the same       *)
(* buffer, by the same Parser (its allocator kept) or by a new one            *)

\* XbrlValidator::validate_facts: the errors, in fact order
RECURSIVE validate_facts_loop(_, _, _)
validate_facts_loop(doc, i, errors) ==
    IF i >= Len(doc.facts) THEN errors
    ELSE LET with_unit(fact, found) ==
                 IF fact.unit_id > 0 /\ fact.unit_id > Len(doc.units)
                 THEN Append(found, [kind |-> "InvalidUnitRef", fact_index |-> i,
                                     unit_id |-> fact.unit_id])
                 ELSE found
             with_context(fact) ==
                 IF fact.context_id >= Len(doc.contexts)
                 THEN <<[kind |-> "InvalidContextRef", fact_index |-> i,
                         context_id |-> fact.context_id]>>
                 ELSE <<>>
             checked(fact) == with_unit(fact, with_context(fact))
         IN  validate_facts_loop(doc, i + 1, errors \o checked(doc.facts[i + 1]))

validate_facts(doc) == validate_facts_loop(doc, 0, <<>>)

\* sec_validation_rules, "Validate calculation consistency for monetary items":
\* the (index, value) of the Decimal facts whose unit it reads as a USD unit
RECURSIVE monetary_facts_loop(_, _, _)
monetary_facts_loop(doc, i, found) ==
    IF i >= Len(doc.facts) THEN found
    ELSE LET is_usd(unit_type) ==
                 /\ unit_type.kind = "Simple"
                 /\ \E m \in 1..Len(unit_type.measures) :
                        unit_type.measures[m].name \in {<<"U", "S", "D">>, <<"u", "s", "d">>}
             monetary(fact) ==
                 /\ fact.value_type = "Decimal"
                 /\ fact.unit_id < Len(doc.units)
                 /\ is_usd(doc.units[fact.unit_id + 1].unit_type)
             pushed(fact) ==
                 IF monetary(fact) THEN Append(found, <<i, fact.value.decimal>>) ELSE found
         IN  monetary_facts_loop(doc, i + 1, pushed(doc.facts[i + 1]))

monetary_facts(doc) == monetary_facts_loop(doc, 0, <<>>)

\* the calls made after the first parse
MaxCalls == 1

\* XbrlValidator::validate_contexts.  The period test reads Duration periods
\* alone; the contexts of the exported parser have Instant periods.
validate_contexts(doc) ==
    LET checked(i, ctx) ==
            (IF \E j \in 1..(i - 1) : doc.contexts[j].id = ctx.id
             THEN <<[kind |-> "DuplicateId", id |-> ctx.id]>>
             ELSE <<>>)
            \o (IF ctx.entity.identifier = <<>>
                THEN <<[kind |-> "MissingRequiredElement",
                        element |-> <<"Entity identifier for context", ctx.id>>]>>
                ELSE <<>>)
        RECURSIVE errors(_)
        errors(n) == IF n = 0 THEN <<>> ELSE errors(n - 1) \o checked(n, doc.contexts[n])
    IN  errors(Len(doc.contexts))

\* XbrlValidator::validate_units
validate_units(doc) ==
    LET empty(unit_type) ==
            IF unit_type.kind = "Divide"
            THEN unit_type.numerator = <<>> \/ unit_type.denominator = <<>>
            ELSE unit_type.measures = <<>>
        checked(i, unit) ==
            (IF \E j \in 1..(i - 1) : doc.units[j].id = unit.id
             THEN <<[kind |-> "DuplicateId", id |-> unit.id]>>
             ELSE <<>>)
            \o (IF empty(unit.unit_type)
                THEN <<[kind |-> "MissingRequiredElement",
                        element |-> <<"Measures for unit", unit.id>>]>>
                ELSE <<>>)
        RECURSIVE errors(_)
        errors(n) == IF n = 0 THEN <<>> ELSE errors(n - 1) \o checked(n, doc.units[n])
    IN  errors(Len(doc.units))

\* the facts of a FactStorage whose columns have its length, one record each
fact_rows(facts) ==
    [i \in 1..facts_len(facts) |->
        [concept_id |-> facts.concept_ids[i], context_id |-> facts.context_ids[i],
         unit_id |-> facts.unit_ids[i]]]

\* XbrlValidator::check_duplicate_facts
check_duplicate_facts(doc, strict_mode) ==
    LET key(fact) == <<fact.concept_id, fact.context_id>>
        checked(rows, i) ==
            IF strict_mode /\ \E j \in 1..(i - 1) : key(rows[j]) = key(rows[i])
            THEN <<[kind |-> "DuplicateId", id |-> <<"Duplicate fact at index", i - 1>>]>>
            ELSE <<>>
        RECURSIVE errors(_, _)
        errors(rows, n) == IF n = 0 THEN <<>> ELSE errors(rows, n - 1) \o checked(rows, n)
        all(rows) == errors(rows, Len(rows))
    IN  all(fact_rows(doc.facts))

\* the slip of failing on any violation, strict mode or not
xbrl_validate_always_strict(doc, strict_mode) ==
    LET returned(validation_errors) ==
            [validation_errors |-> validation_errors,
             result |-> IF validation_errors # <<>> THEN Err("Validation") ELSE Ok(0, <<>>)]
    IN  returned(validate_contexts(doc)
                 \o validate_units(doc)
                 \o validate_facts([contexts |-> doc.contexts, units |-> doc.units,
                                    facts |-> fact_rows(doc.facts)])
                 \o check_duplicate_facts(doc, strict_mode))

\* XbrlValidator::validate on a validator made by new(), which checks
\* contexts, units and duplicates: the errors it collects and what it returns
xbrl_validate(doc, strict_mode) ==
    LET returned(validation_errors) ==
            [validation_errors |-> validation_errors,
             result |-> IF strict_mode /\ validation_errors # <<>>
                        THEN Err("Validation")
                        ELSE Ok(0, <<>>)]
    IN  returned(validate_contexts(doc)
                 \o validate_units(doc)
                 \o validate_facts([contexts |-> doc.contexts, units |-> doc.units,
                                    facts |-> fact_rows(doc.facts)])
                 \o check_duplicate_facts(doc, strict_mode))

\* Validator::validate of lib.rs, for with_config(strict): the ValidationResult
\* without its duration
validator_validate(doc, strict) ==
    LET summary(is_valid) ==
            Ok(0, [is_valid |-> is_valid,
                   errors |-> IF is_valid THEN <<>> ELSE <<"Validation failed">>,
                   warnings |-> <<>>,
                   stats |-> [facts_validated |-> facts_len(doc.facts)]])
    IN  summary(xbrl_validate(doc, strict).result.ok)

\* validator.validate(&doc) on the Document the exported parser returned, by
\* Validator::new() or with_config (strict or not)
Validate ==
    /\ ret.kind = "Ok"
    /\ Len(calls) < MaxCalls
    /\ last' = "validate"
    /\ \E strict \in BOOLEAN :
           calls' = Append(calls, [op |-> "validate", strict |-> strict,
                                   inner |-> xbrl_validate(document, strict),
                                   result |-> validator_validate(document, strict)])
    /\ UNCHANGED <<linkbase, cache, data, pos, avx2, in_xbrl_root, current_tuple_stack, document,
                   interner, ret>>

SimpleNext ==
    \/ ParseBytes
    \/ Validate

SimpleSpec == SimpleInit /\ [][SimpleNext]_vars

\* validator.validate(&mut doc) on the returned Document, at its fact validation
ValidateFacts ==
    /\ ret.kind = "Ok"
    /\ Len(calls) < MaxCalls
    /\ last' = "validate_facts"
    /\ calls' = Append(calls, [op |-> "validate_facts", errors |-> validate_facts(document)])
    /\ UNCHANGED <<linkbase, cache, data, pos, avx2, in_xbrl_root, current_tuple_stack, document,
                   interner, ret>>

\* sec_validation_rules(&doc) on the returned Document, at its monetary items
MonetaryFacts ==
    /\ ret.kind = "Ok"
    /\ Len(calls) < MaxCalls
    /\ last' = "sec_validation_rules"
    /\ calls' = Append(calls, [op |-> "sec_validation_rules",
                               monetary_facts |-> monetary_facts(document)])
    /\ UNCHANGED <<linkbase, cache, data, pos, avx2, in_xbrl_root, current_tuple_stack, document,
                   interner, ret>>

\* parse_bytes on the same buffer once more; the history keeps what the parse
\* before returned and what its allocator had interned
ParseAgain ==
    /\ ret.kind \in {"Ok", "Err"}
    /\ Len(calls) < MaxCalls
    /\ calls' = Append(calls, [op |-> "parse_bytes", result |-> ret, strings |-> interner])
    /\ pos' = 0
    /\ in_xbrl_root' = FALSE
    /\ current_tuple_stack' = <<>>
    /\ document' = empty_document
    /\ interner' \in {interner, <<>>}
    /\ ret' = Running
    /\ last' = "new"
    /\ UNCHANGED <<linkbase, cache, data, avx2>>

SessionNext ==
    \/ Next
    \/ ValidateFacts
    \/ MonetaryFacts
    \/ ParseAgain

\* the pieces of a buffer that is parsed, validated and parsed again
MaxSessionPieces == 2

SessionInputs ==
    Buffers(ROOT_OPEN \o CONTEXT_C1 \o UNIT_U1, TUPLE_PIECES, ROOT_CLOSE, MaxSessionPieces)
    \cup Buffers(ROOT_OPEN \o CONTEXT_C1 \o UNIT_U1, FACT_PIECES, ROOT_CLOSE, MaxSessionPieces)
    \cup Buffers(ROOT_OPEN, CONTEXT_PIECES, ROOT_CLOSE, MaxSessionPieces)
    \cup Buffers(ROOT_OPEN, UNIT_PIECES, ROOT_CLOSE, MaxSessionPieces)
    \cup Buffers(<<>>, MISC_PIECES, <<>>, MaxSessionPieces)
    \cup Buffers(ROOT_OPEN \o LINK_OPEN, FOOTNOTE_PIECES, LINK_CLOSE \o ROOT_CLOSE,
                 MaxSessionPieces)

\* the first FullXbrlParser::new of the session, on any host
SessionInit ==
    /\ data \in SessionInputs
    /\ pos = 0
    /\ avx2 \in BOOLEAN
    /\ in_xbrl_root = FALSE
    /\ current_tuple_stack = <<>>
    /\ document = empty_document
    /\ interner = <<>>
    /\ ret = Running
    /\ last = "new"
    /\ calls = <<>>
    /\ linkbase = new_linkbase
    /\ cache = new_cache(0)

SessionSpec == SessionInit /\ [][SessionNext]_vars

----------------------------------------------------------------------------
(* Properties of the stored indices and of repeated parses, checked under *)
(* SessionSpec                                                             *)

\* C15: for every fact put in columnar storage the stored context index i has
\* contexts[i].id equal to the fact's contextRef (the first such context), the
\* stored unit index k is 0 exactly when the fact has no unitRef or its unitRef
\* matches no unit and otherwise units[k-1].id equals the unitRef, and every
\* reader of a unit index uses this offset-by-one convention
C15_IndicesDenoteReferencedContextAndUnit ==
    [][LET parsed == parse_fact(element.pos, element.val)
           fact == unwrap(parsed.val)
           stored == document'.facts[Len(document'.facts)]
           i == stored.context_id
           k == stored.unit_id
           matches(unit_ref) == \E u \in 1..Len(document.units) :
                                    document.units[u].id = unit_ref
           \* the unit that index k denotes by the convention is a USD unit
           usd(f) ==
               /\ f.unit_id >= 1
               /\ f.unit_id - 1 < Len(document.units)
               /\ document.units[f.unit_id].unit_type.kind = "Simple"
               /\ \E m \in 1..Len(document.units[f.unit_id].unit_type.measures) :
                      document.units[f.unit_id].unit_type.measures[m].name
                          \in {<<"U", "S", "D">>, <<"u", "s", "d">>}
           read == calls'[Len(calls')]
       IN  /\ (/\ last' = "parse_fact"
               /\ Len(document'.facts) = Len(document.facts) + 1)
              => /\ document.contexts[i + 1].id = fact.context_ref
                 /\ \A j \in 1..i : document.contexts[j].id # fact.context_ref
                 /\ k = 0 <=> (~is_some(fact.unit_ref) \/ ~matches(unwrap(fact.unit_ref)))
                 /\ k # 0 => document.units[k].id = unwrap(fact.unit_ref)
           /\ last' = "validate_facts"
              => \A f \in 1..Len(document.facts) :
                     (\E e \in 1..Len(read.errors) :
                          /\ read.errors[e].kind = "InvalidUnitRef"
                          /\ read.errors[e].fact_index = f - 1)
                     <=> (/\ document.facts[f].unit_id >= 1
                          /\ document.facts[f].unit_id - 1 >= Len(document.units))
           /\ last' = "sec_validation_rules"
              => \A f \in 1..Len(document.facts) :
                     (\E e \in 1..Len(read.monetary_facts) :
                          read.monetary_facts[e][1] = f - 1)
                     <=> (document.facts[f].value_type = "Decimal" /\ usd(document.facts[f]))
      ]_vars

\* C16: parsing the same buffer twice gives the same outcome, and Documents
\* with equal numbers of facts, contexts and units, equal context indices and
\* typed values fact by fact, and concept ids that resolve to the same names
C16_SecondParseEqualsFirst ==
    \A c \in 1..Len(calls) :
        (calls[c].op = "parse_bytes" /\ ret.kind # "Running")
        => LET first == calls[c].result
               names == calls[c].strings
           IN  /\ ret.kind = first.kind
               /\ ret.kind = "Err" => ret.err = first.err
               /\ ret.kind = "Ok"
                  => /\ Len(ret.document.facts) = Len(first.document.facts)
                     /\ Len(ret.document.contexts) = Len(first.document.contexts)
                     /\ Len(ret.document.units) = Len(first.document.units)
                     /\ \A f \in 1..Len(ret.document.facts) :
                            LET again == ret.document.facts[f]
                                before == first.document.facts[f]
                            IN  /\ again.context_id = before.context_id
                                /\ again.value_type = before.value_type
                                /\ again.value = before.value
                                /\ is_some(get_interned(interner, again.concept_id))
                                /\ get_interned(interner, again.concept_id)
                                       = get_interned(names, before.concept_id)

\* a second parse by the same Parser returned a Document with a Text fact
C16_ParsedTwiceWithTextFact ==
    /\ calls # <<>>
    /\ calls[1].op = "parse_bytes"
    /\ calls[1].result.kind = "Ok"
    /\ calls[1].strings # <<>>
    /\ ret.kind = "Ok"
    /\ \E f \in 1..Len(ret.document.facts) : ret.document.facts[f].value_type = "String"

----------------------------------------------------------------------------
(* Properties of footnote links, checked under Spec *)

\* C18: within one footnoteLink element, for every footnote label of the
\* element the 'from' of every arc whose 'to' equals the label is appended to
\* that footnote's fact references, in arc order, wherever the arc stands
\* relative to the footnote; an arc whose 'to' matches no footnote changes
\* nothing and raises no error
C18_ArcsAttachToLabelledFootnote ==
    [][LET link_end == CHOOSE e \in (element.pos + 1)..Len(data) :
                           /\ SubSeq(data, e, e + Len(LINK_CLOSE) - 1) = LINK_CLOSE
                           /\ \A j \in (element.pos + 1)..(e - 1) :
                                  SubSeq(data, j, j + Len(LINK_CLOSE) - 1) # LINK_CLOSE
           occurrences(pattern) ==
               {i \in (element.pos + 1)..link_end :
                   SubSeq(data, i, i + Len(pattern) - 1) = pattern}
           \* the attribute value that starts at index i
           value_at(i) ==
               SubSeq(data, i, (CHOOSE q \in i..Len(data) :
                                    data[q] = "\"" /\ \A j \in i..(q - 1) : data[j] # "\"") - 1)
           label_is == <<" ", "l", "a", "b", "e", "l", "=", "\"">>
           from_is == <<"<", "f", "o", "o", "t", "n", "o", "t", "e", "A", "r", "c", " ", "f", "r", "o", "m", "=", "\"">>
           to_is == <<"\"", " ", "t", "o", "=", "\"">>
           labels == {value_at(i + Len(label_is)) : i \in occurrences(label_is)}
           arcs == occurrences(from_is)
           from(a) == value_at(a + Len(from_is))
           to(a) == value_at(a + Len(from_is) + Len(from(a)) + Len(to_is))
           arcs_to(label) == {a \in arcs : to(a) = label}
           nth(label, n) == CHOOSE a \in arcs_to(label) :
                                Cardinality({b \in arcs_to(label) : b < a}) = n - 1
           added == SubSeq(document'.footnotes, Len(document.footnotes) + 1,
                           Len(document'.footnotes))
       IN  (/\ dispatches("parse_footnote_link")
            /\ \E e \in (element.pos + 1)..Len(data) :
                   SubSeq(data, e, e + Len(LINK_CLOSE) - 1) = LINK_CLOSE)
           => /\ ret'.kind # "Err"
              /\ \A label \in labels :
                     \E n \in 1..Len(added) :
                         /\ Len(added[n].fact_refs) = Cardinality(arcs_to(label))
                         /\ \A r \in 1..Len(added[n].fact_refs) :
                                added[n].fact_refs[r] = from(nth(label, r))
      ]_vars

----------------------------------------------------------------------------
(* Whitespace skipping on its own: SimdScanner::skip_whitespace from any      *)
(* cursor of a buffer made of two runs of whitespace around at most one other *)
(* byte, on hosts with and without AVX2                                       *)

\* the four whitespace bytes, in the order the runs cycle through them
WHITESPACE_CYCLE == <<" ", "\t", "\n", "\r">>

whitespace_run(n) == [i \in 1..n |-> WHITESPACE_CYCLE[((i - 1) % 4) + 1]]

\* the longest run: one byte more than a vector
MaxRun == 33

WhitespaceBuffers ==
    {whitespace_run(a) \o middle \o whitespace_run(b) :
        a \in 0..MaxRun, b \in 0..MaxRun, middle \in {<<>>, <<"x">>}}

WhitespaceInit ==
    /\ data \in WhitespaceBuffers
    /\ pos \in 0..Len(data)
    /\ avx2 \in BOOLEAN
    /\ in_xbrl_root = FALSE
    /\ current_tuple_stack = <<>>
    /\ document = empty_document
    /\ interner = <<>>
    /\ ret = Running
    /\ last = "new"
    /\ calls = <<>>
    /\ linkbase = new_linkbase
    /\ cache = new_cache(0)

\* SimdScanner::skip_whitespace
SkipWhitespace ==
    /\ last = "new"
    /\ last' = "skip_whitespace"
    /\ pos' = skip_whitespace(pos)
    /\ UNCHANGED <<calls, linkbase, cache, data, avx2, in_xbrl_root, current_tuple_stack, document, interner,
                   ret>>

WhitespaceNext == SkipWhitespace

WhitespaceSpec == WhitespaceInit /\ [][WhitespaceNext]_vars

----------------------------------------------------------------------------
(* Properties of whitespace skipping, checked under WhitespaceSpec *)

\* C19: from every start position of every buffer the vectorized path and the
\* scalar path return the same position: the smallest index at or after the
\* start whose byte is not a space, tab, carriage return or line feed, or the
\* buffer length if there is none
C19_VectorizedSkipEqualsScalar ==
    [][LET others == {i \in pos..(Len(data) - 1) : data[i + 1] \notin {" ", "\t", "\r", "\n"}}
           expected == IF others = {} THEN Len(data)
                       ELSE CHOOSE i \in others : \A j \in others : i <= j
       IN  /\ skip_whitespace_avx2(data, pos) = expected
           /\ skip_whitespace_scalar(data, pos) = expected
           /\ pos' = expected
      ]_vars

\* a host with AVX2 skipped a whole block of whitespace and stopped at the
\* byte after it, in the second block
C19_StoppedInSecondBlock ==
    /\ last = "skip_whitespace"
    /\ avx2
    /\ Len(data) = 2 * VECTOR_WIDTH + 3
    /\ pos = VECTOR_WIDTH + 1
    /\ data[pos + 1] = "x"
    /\ \A i \in 1..pos : data[i] \in WHITESPACE

----------------------------------------------------------------------------
(* The string interner on its own: any sequence of intern_string and *)
(* get_interned calls on a new ArenaAllocator                         *)

\* the strings interned: the empty string, and one a prefix of the other
INTERN_STRINGS == {<<>>, <<"a">>, <<"a", "b">>}

MaxInternCalls == 4

\* ArenaAllocator::new
InternInit ==
    /\ data = <<>>
    /\ pos = 0
    /\ avx2 = FALSE
    /\ in_xbrl_root = FALSE
    /\ current_tuple_stack = <<>>
    /\ document = empty_document
    /\ interner = <<>>
    /\ ret = Running
    /\ last = "new"
    /\ calls = <<>>
    /\ linkbase = new_linkbase
    /\ cache = new_cache(0)

\* ArenaAllocator::intern_string
InternString ==
    /\ Len(calls) < MaxInternCalls
    /\ last' = "intern_string"
    /\ \E s \in INTERN_STRINGS :
           LET returned(r) ==
                   /\ interner' = r.strings
                   /\ calls' = Append(calls, [op |-> "intern_string", s |-> s, id |-> r.id])
           IN  returned(intern_string(interner, s))
    /\ UNCHANGED <<linkbase, cache, data, pos, avx2, in_xbrl_root, current_tuple_stack, document, ret>>

\* ArenaAllocator::get_interned, of ids issued and not
GetInterned ==
    /\ Len(calls) < MaxInternCalls
    /\ last' = "get_interned"
    /\ \E id \in 0..(Len(interner) + 1) :
           calls' = Append(calls, [op |-> "get_interned", id |-> id,
                                   result |-> get_interned(interner, id)])
    /\ UNCHANGED <<linkbase, cache, data, pos, avx2, in_xbrl_root, current_tuple_stack, document, interner,
                   ret>>

InternNext ==
    \/ InternString
    \/ GetInterned

InternSpec == InternInit /\ [][InternNext]_vars

----------------------------------------------------------------------------
(* Properties of the string interner, checked under InternSpec *)

\* C20: after any sequence of intern_string calls two calls returned the same
\* id if and only if their contents are equal, an id issued once keeps
\* denoting the same content (get_interned of the id a call returned is that
\* call's content), and get_interned of an id never issued returns None
C20_InternedIdsDenoteTheirContent ==
    LET interned == {c \in 1..Len(calls) : calls[c].op = "intern_string"}
        resolved == {c \in 1..Len(calls) : calls[c].op = "get_interned"}
    IN  /\ \A i, j \in interned : calls[i].id = calls[j].id <=> calls[i].s = calls[j].s
        /\ \A i \in interned : get_interned(interner, calls[i].id) = Some(calls[i].s)
        /\ \A g \in resolved :
               /\ \A i \in interned :
                      (i < g /\ calls[i].id = calls[g].id)
                      => calls[g].result = Some(calls[i].s)
               /\ (\A i \in interned : i < g => calls[i].id # calls[g].id)
                  => calls[g].result = NoneOpt

\* "a" got the id it had before "ab" was interned, and an id never issued
\* resolved to None
C20_SameIdAgainAndUnknownId ==
    /\ Len(calls) = 4
    /\ calls[1] = [op |-> "intern_string", s |-> <<"a">>, id |-> 0]
    /\ calls[2] = [op |-> "intern_string", s |-> <<"a", "b">>, id |-> 1]
    /\ calls[3] = [op |-> "intern_string", s |-> <<"a">>, id |-> 0]
    /\ calls[4] = [op |-> "get_interned", id |-> 2, result |-> NoneOpt]

----------------------------------------------------------------------------
(* A LinkbaseProcessor on its own: a new processor loads one linkbase text *)
(* and then answers one call                                               *)

\* presentation arcs: orders given, left out (1.0) and not a number
PRESENTATION_PIECES ==
  <<
    \* 1: <link:presentationArc xlink:from="R" xlink:to="B" order="2"/>
    <<"<", "l", "i", "n", "k", ":", "p", "r", "e", "s", "e", "n", "t", "a", "t", "i", "o", "n",
      "A", "r", "c", " ", "x", "l", "i", "n", "k", ":", "f", "r", "o", "m", "=", "\"", "R",
      "\"", " ", "x", "l", "i", "n", "k", ":", "t", "o", "=", "\"", "B", "\"", " ", "o", "r",
      "d", "e", "r", "=", "\"", "2", "\"", "/", ">">>,
    \* 2: <link:presentationArc xlink:from="R" xlink:to="C" order="1"/>
    <<"<", "l", "i", "n", "k", ":", "p", "r", "e", "s", "e", "n", "t", "a", "t", "i", "o", "n",
      "A", "r", "c", " ", "x", "l", "i", "n", "k", ":", "f", "r", "o", "m", "=", "\"", "R",
      "\"", " ", "x", "l", "i", "n", "k", ":", "t", "o", "=", "\"", "C", "\"", " ", "o", "r",
      "d", "e", "r", "=", "\"", "1", "\"", "/", ">">>,
    \* 3: <link:presentationArc xlink:from="R" xlink:to="D"/>
    <<"<", "l", "i", "n", "k", ":", "p", "r", "e", "s", "e", "n", "t", "a", "t", "i", "o", "n",
      "A", "r", "c", " ", "x", "l", "i", "n", "k", ":", "f", "r", "o", "m", "=", "\"", "R",
      "\"", " ", "x", "l", "i", "n", "k", ":", "t", "o", "=", "\"", "D", "\"", "/", ">">>,
    \* 4: <link:presentationArc xlink:from="R" xlink:to="E" order="NaN"/>
    <<"<", "l", "i", "n", "k", ":", "p", "r", "e", "s", "e", "n", "t", "a", "t", "i", "o", "n",
      "A", "r", "c", " ", "x", "l", "i", "n", "k", ":", "f", "r", "o", "m", "=", "\"", "R",
      "\"", " ", "x", "l", "i", "n", "k", ":", "t", "o", "=", "\"", "E", "\"", " ", "o", "r",
      "d", "e", "r", "=", "\"", "N", "a", "N", "\"", "/", ">">>,
    \* 5: <link:presentationArc xlink:from="S" xlink:to="B" order="1.0" priority="1" use="optional"/>
    <<"<", "l", "i", "n", "k", ":", "p", "r", "e", "s", "e", "n", "t", "a", "t", "i", "o", "n",
      "A", "r", "c", " ", "x", "l", "i", "n", "k", ":", "f", "r", "o", "m", "=", "\"", "S",
      "\"", " ", "x", "l", "i", "n", "k", ":", "t", "o", "=", "\"", "B", "\"", " ", "o", "r",
      "d", "e", "r", "=", "\"", "1", ".", "0", "\"", " ", "p", "r", "i", "o", "r", "i", "t",
      "y", "=", "\"", "1", "\"", " ", "u", "s", "e", "=", "\"", "o", "p", "t", "i", "o", "n",
      "a", "l", "\"", "/", ">">>
  >>

\* calculation arcs of the parents A and D
CALCULATION_PIECES ==
  <<
    \* 1: <link:calculationArc xlink:from="A" xlink:to="B" weight="1"/>
    <<"<", "l", "i", "n", "k", ":", "c", "a", "l", "c", "u", "l", "a", "t", "i", "o", "n", "A",
      "r", "c", " ", "x", "l", "i", "n", "k", ":", "f", "r", "o", "m", "=", "\"", "A", "\"",
      " ", "x", "l", "i", "n", "k", ":", "t", "o", "=", "\"", "B", "\"", " ", "w", "e", "i",
      "g", "h", "t", "=", "\"", "1", "\"", "/", ">">>,
    \* 2: <link:calculationArc xlink:from="A" xlink:to="C" weight="1.0" order="2"/>
    <<"<", "l", "i", "n", "k", ":", "c", "a", "l", "c", "u", "l", "a", "t", "i", "o", "n", "A",
      "r", "c", " ", "x", "l", "i", "n", "k", ":", "f", "r", "o", "m", "=", "\"", "A", "\"",
      " ", "x", "l", "i", "n", "k", ":", "t", "o", "=", "\"", "C", "\"", " ", "w", "e", "i",
      "g", "h", "t", "=", "\"", "1", ".", "0", "\"", " ", "o", "r", "d", "e", "r", "=", "\"",
      "2", "\"", "/", ">">>,
    \* 3: <link:calculationArc xlink:from="A" xlink:to="C" weight="-1"/>
    <<"<", "l", "i", "n", "k", ":", "c", "a", "l", "c", "u", "l", "a", "t", "i", "o", "n", "A",
      "r", "c", " ", "x", "l", "i", "n", "k", ":", "f", "r", "o", "m", "=", "\"", "A", "\"",
      " ", "x", "l", "i", "n", "k", ":", "t", "o", "=", "\"", "C", "\"", " ", "w", "e", "i",
      "g", "h", "t", "=", "\"", "-", "1", "\"", "/", ">">>,
    \* 4: <link:calculationArc xlink:from="D" xlink:to="B" weight="0.5"/>
    <<"<", "l", "i", "n", "k", ":", "c", "a", "l", "c", "u", "l", "a", "t", "i", "o", "n", "A",
      "r", "c", " ", "x", "l", "i", "n", "k", ":", "f", "r", "o", "m", "=", "\"", "D", "\"",
      " ", "x", "l", "i", "n", "k", ":", "t", "o", "=", "\"", "B", "\"", " ", "w", "e", "i",
      "g", "h", "t", "=", "\"", "0", ".", "5", "\"", "/", ">">>,
    \* 5: <link:calculationArc xlink:from="A" xlink:to="B" weight="NaN"/>
    <<"<", "l", "i", "n", "k", ":", "c", "a", "l", "c", "u", "l", "a", "t", "i", "o", "n", "A",
      "r", "c", " ", "x", "l", "i", "n", "k", ":", "f", "r", "o", "m", "=", "\"", "A", "\"",
      " ", "x", "l", "i", "n", "k", ":", "t", "o", "=", "\"", "B", "\"", " ", "w", "e", "i",
      "g", "h", "t", "=", "\"", "N", "a", "N", "\"", "/", ">">>
  >>

\* labels of the concept A
LABEL_PIECES ==
  <<
    \* 1: <link:label xlink:label="A" xlink:role="R1" xml:lang="en">Foo</link:label>
    <<"<", "l", "i", "n", "k", ":", "l", "a", "b", "e", "l", " ", "x", "l", "i", "n", "k", ":",
      "l", "a", "b", "e", "l", "=", "\"", "A", "\"", " ", "x", "l", "i", "n", "k", ":", "r",
      "o", "l", "e", "=", "\"", "R", "1", "\"", " ", "x", "m", "l", ":", "l", "a", "n", "g",
      "=", "\"", "e", "n", "\"", ">", "F", "o", "o", "<", "/", "l", "i", "n", "k", ":", "l",
      "a", "b", "e", "l", ">">>,
    \* 2: <link:label xlink:label="A" xlink:role="R2" xml:lang="fr">Bar</link:label>
    <<"<", "l", "i", "n", "k", ":", "l", "a", "b", "e", "l", " ", "x", "l", "i", "n", "k", ":",
      "l", "a", "b", "e", "l", "=", "\"", "A", "\"", " ", "x", "l", "i", "n", "k", ":", "r",
      "o", "l", "e", "=", "\"", "R", "2", "\"", " ", "x", "m", "l", ":", "l", "a", "n", "g",
      "=", "\"", "f", "r", "\"", ">", "B", "a", "r", "<", "/", "l", "i", "n", "k", ":", "l",
      "a", "b", "e", "l", ">">>,
    \* 3: <link:label xlink:label="A" xlink:role="R1" xml:lang="fr"> Baz </link:label>
    <<"<", "l", "i", "n", "k", ":", "l", "a", "b", "e", "l", " ", "x", "l", "i", "n", "k", ":",
      "l", "a", "b", "e", "l", "=", "\"", "A", "\"", " ", "x", "l", "i", "n", "k", ":", "r",
      "o", "l", "e", "=", "\"", "R", "1", "\"", " ", "x", "m", "l", ":", "l", "a", "n", "g",
      "=", "\"", "f", "r", "\"", ">", " ", "B", "a", "z", " ", "<", "/", "l", "i", "n", "k",
      ":", "l", "a", "b", "e", "l", ">">>,
    \* 4: <link:label xlink:label="A" xlink:role="R2">Qux</link:label>
    <<"<", "l", "i", "n", "k", ":", "l", "a", "b", "e", "l", " ", "x", "l", "i", "n", "k", ":",
      "l", "a", "b", "e", "l", "=", "\"", "A", "\"", " ", "x", "l", "i", "n", "k", ":", "r",
      "o", "l", "e", "=", "\"", "R", "2", "\"", ">", "Q", "u", "x", "<", "/", "l", "i", "n",
      "k", ":", "l", "a", "b", "e", "l", ">">>
  >>

PRESENTATION_OPEN ==
    <<"<", "l", "i", "n", "k", ":", "p", "r", "e", "s", "e", "n", "t", "a", "t", "i", "o", "n",
      "L", "i", "n", "k", ">">>

PRESENTATION_CLOSE ==
    <<"<", "/", "l", "i", "n", "k", ":", "p", "r", "e", "s", "e", "n", "t", "a", "t", "i", "o",
      "n", "L", "i", "n", "k", ">">>

CALCULATION_OPEN ==
    <<"<", "l", "i", "n", "k", ":", "c", "a", "l", "c", "u", "l", "a", "t", "i", "o", "n", "L",
      "i", "n", "k", ">">>

CALCULATION_CLOSE ==
    <<"<", "/", "l", "i", "n", "k", ":", "c", "a", "l", "c", "u", "l", "a", "t", "i", "o", "n",
      "L", "i", "n", "k", ">">>

\* the extended link's opening tag starts with "<link:label" too
LABEL_OPEN ==
    <<"<", "l", "i", "n", "k", ":", "l", "a", "b", "e", "l", "L", "i", "n", "k", ">">>

LABEL_CLOSE ==
    <<"<", "/", "l", "i", "n", "k", ":", "l", "a", "b", "e", "l", "L", "i", "n", "k", ">">>

MaxLinkbasePieces == 3

LinkbaseInputs ==
    Buffers(PRESENTATION_OPEN, PRESENTATION_PIECES, PRESENTATION_CLOSE, MaxLinkbasePieces)
    \cup Buffers(CALCULATION_OPEN, CALCULATION_PIECES, CALCULATION_CLOSE, MaxLinkbasePieces)
    \cup Buffers(LABEL_OPEN, LABEL_PIECES, LABEL_CLOSE, MaxLinkbasePieces)
    \cup Buffers(<<>>, LABEL_PIECES, LABEL_CLOSE, MaxLinkbasePieces)

\* the concepts, roles and languages a caller asks about
CONCEPTS == {<<"A">>, <<"B">>, <<"D">>, <<"R">>, <<"S">>}
ROLES == {<<"R", "1">>, <<"R", "2">>, <<"R", "3">>}
LANGS == {<<"e", "n">>, <<"f", "r">>, <<"d", "e">>}

\* the caller's facts: A is 100 or absent, B is 60 or absent, C is 40, 40.02,
\* 40.005 or absent, D is 30 or absent
FACTS ==
    LET options(name, values) == {<<>>} \cup {<<<<name, v>>>> : v \in values}
    IN  {a \o b \o c \o d :
            a \in options(<<"A">>, {normal_f64(FALSE, 100, 0)}),
            b \in options(<<"B">>, {normal_f64(FALSE, 60, 0)}),
            c \in options(<<"C">>, {normal_f64(FALSE, 40, 0), normal_f64(FALSE, 4002, 0 - 2),
                                    normal_f64(FALSE, 40005, 0 - 3)}),
            d \in options(<<"D">>, {normal_f64(FALSE, 30, 0)})}

\* LinkbaseProcessor::new, and the text of the linkbase file to load
LinkbaseInit ==
    /\ data \in LinkbaseInputs
    /\ pos = 0
    /\ avx2 = FALSE
    /\ in_xbrl_root = FALSE
    /\ current_tuple_stack = <<>>
    /\ document = empty_document
    /\ interner = <<>>
    /\ ret = Running
    /\ last = "new"
    /\ calls = <<>>
    /\ linkbase = new_linkbase
    /\ cache = new_cache(0)

\* a call of the processor: its record joins the history
linkbase_call(name, call) ==
    /\ \A c \in 1..Len(calls) : calls[c].op = "parse_linkbase"
    /\ calls' = Append(calls, call)
    /\ last' = name
    /\ UNCHANGED <<linkbase, cache, data, pos, avx2, in_xbrl_root, current_tuple_stack, document,
                   interner, ret>>

ParseLinkbase ==
    /\ calls = <<>>
    /\ LET parsed(r) ==
               /\ linkbase' = r.linkbase
               /\ calls' = <<[op |-> "parse_linkbase", result |-> r.result]>>
       IN  parsed(parse_linkbase(linkbase, data))
    /\ last' = "parse_linkbase"
    /\ UNCHANGED <<cache, data, pos, avx2, in_xbrl_root, current_tuple_stack, document,
                   interner, ret>>

GetPresentationTree ==
    \E root \in CONCEPTS :
        linkbase_call("get_presentation_tree",
            [op |-> "get_presentation_tree", root |-> root,
             result |-> get_presentation_tree(linkbase, root)])

CalculateTotal ==
    \E parent \in CONCEPTS, facts \in FACTS :
        linkbase_call("calculate_total",
            [op |-> "calculate_total", parent |-> parent, facts |-> facts,
             result |-> calculate_total(linkbase, parent, facts)])

GetLabel ==
    \E concept \in CONCEPTS, role \in ROLES, lang \in LANGS :
        linkbase_call("get_label",
            [op |-> "get_label", concept |-> concept, role |-> role, lang |-> lang,
             result |-> get_label(linkbase, concept, role, lang)])

ValidateCalculations ==
    \E facts \in FACTS, order \in Orders(Len(linkbase.calculation_links)) :
        linkbase_call("validate_calculations",
            [op |-> "validate_calculations", facts |-> facts,
             result |-> validate_calculations(linkbase, facts, order)])

LinkbaseNext ==
    \/ ParseLinkbase
    \/ GetPresentationTree
    \/ CalculateTotal
    \/ GetLabel
    \/ ValidateCalculations

LinkbaseSpec == LinkbaseInit /\ [][LinkbaseNext]_vars

----------------------------------------------------------------------------
(* Properties of the linkbase processor, checked under LinkbaseSpec *)

\* the labels stored for a concept, in the order they were pushed
labels_of(concept) == unwrap_or(map_get(linkbase.label_links, concept), <<>>)

\* C21: get_label(concept, role, lang) returns the first label of the concept
\* with that role and lang; when there is none, the first label with that
\* lang in any role; when there is none, the first label stored for the
\* concept; and nothing only when the concept has no labels.
C21_LabelFallbackPrecedence ==
    \A c \in 1..Len(calls) :
        calls[c].op = "get_label"
        => LET labels == labels_of(calls[c].concept)
               exact == {i \in 1..Len(labels) :
                            labels[i].role = calls[c].role /\ labels[i].lang = calls[c].lang}
               same_lang == {i \in 1..Len(labels) : labels[i].lang = calls[c].lang}
               least(S) == CHOOSE i \in S : \A j \in S : i <= j
           IN  /\ exact # {} => calls[c].result = Some(labels[least(exact)].label)
               /\ (exact = {} /\ same_lang # {})
                  => calls[c].result = Some(labels[least(same_lang)].label)
               /\ (same_lang = {} /\ labels # <<>>)
                  => calls[c].result = Some(labels[1].label)
               /\ calls[c].result = NoneOpt <=> labels = <<>>

\* a lookup answered by the same-lang step with a label that is not the
\* concept's first
C21_AnsweredBySameLangInOtherRole ==
    \E c \in 1..Len(calls) :
        /\ calls[c].op = "get_label"
        /\ LET labels == labels_of(calls[c].concept)
           IN  /\ Len(labels) = 3
               /\ \A i \in 1..3 : labels[i].role # calls[c].role
               /\ labels[1].lang # calls[c].lang
               /\ labels[2].lang # calls[c].lang
               /\ labels[3].lang = calls[c].lang
               /\ calls[c].result = Some(labels[3].label)
               /\ labels[3].label # labels[1].label

\* the two labels of the example: (R1, en, "Foo") and then (R2, fr, "Bar")
foo_then_bar(labels) ==
    /\ Len(labels) = 2
    /\ labels[1].role = <<"R", "1">> /\ labels[1].lang = <<"e", "n">>
    /\ labels[1].label = <<"F", "o", "o">>
    /\ labels[2].role = <<"R", "2">> /\ labels[2].lang = <<"f", "r">>
    /\ labels[2].label = <<"B", "a", "r">>

\* C22 as stated: with only the labels (R1, en, "Foo") and (R2, fr, "Bar") for
\* a concept, in that order, get_label for (R1, fr) yields "Foo".
C22_Original_RoleMatchYieldsFoo ==
    \A c \in 1..Len(calls) :
        ( /\ calls[c].op = "get_label"
          /\ foo_then_bar(labels_of(calls[c].concept))
          /\ calls[c].role = <<"R", "1">>
          /\ calls[c].lang = <<"f", "r">> )
        => calls[c].result = Some(<<"F", "o", "o">>)

\* C22, amended: with only the labels (R1, en, "Foo") and (R2, fr, "Bar") for
\* a concept, in that order, get_label for (R1, fr) yields "Bar".
C22_SameLangYieldsBar ==
    \A c \in 1..Len(calls) :
        ( /\ calls[c].op = "get_label"
          /\ foo_then_bar(labels_of(calls[c].concept))
          /\ calls[c].role = <<"R", "1">>
          /\ calls[c].lang = <<"f", "r">> )
        => calls[c].result = Some(<<"B", "a", "r">>)

\* the lookup of the example was made
C22_AskedForR1French ==
    \E c \in 1..Len(calls) :
        /\ calls[c].op = "get_label"
        /\ calls[c].concept = <<"A">>
        /\ foo_then_bar(labels_of(<<"A">>))
        /\ calls[c].role = <<"R", "1">>
        /\ calls[c].lang = <<"f", "r">>
        /\ calls[c].result # NoneOpt

\* C23: get_presentation_tree(root) returns exactly the presentation arcs
\* whose from is root, each once, sorted by ascending order, arcs of equal
\* order staying in the order they were encountered; for a root with no arcs
\* it returns the empty list.
C23_TreeIsStableSortOfRootArcs ==
    \A c \in 1..Len(calls) :
        calls[c].op = "get_presentation_tree"
        => LET stored == unwrap_or(map_get(linkbase.presentation_links, calls[c].root), <<>>)
               n == Len(stored)
               tree == calls[c].result
           IN  /\ \A e \in 1..Len(linkbase.presentation_links) :
                      \A i \in 1..Len(linkbase.presentation_links[e][2]) :
                          linkbase.presentation_links[e][2][i].from
                              = linkbase.presentation_links[e][1]
               /\ tree.kind = "Ok"
               /\ Len(tree.links) = n
               /\ \E f \in Orders(n) :
                      /\ \A i \in 1..n : tree.links[i] = stored[f[i]]
                      /\ \A i, j \in 1..n :
                             i < j => \/ partial_cmp(stored[f[i]].order, stored[f[j]].order)
                                             = Some("Less")
                                      \/ /\ partial_cmp(stored[f[i]].order, stored[f[j]].order)
                                             = Some("Equal")
                                         /\ f[i] < f[j]

\* C24: calculate_total(parent, facts) is the sum over the parent's
\* calculation arcs of weight times the child's fact value, a child without a
\* fact adding 0; for a parent without calculation arcs it is the parent's own
\* fact value, or 0 when it has none.  The sum is taken in ten-thousandths.
C24_TotalIsWeightedSumOrOwnValue ==
    \A c \in 1..Len(calls) :
        calls[c].op = "calculate_total"
        => LET arcs == unwrap_or(map_get(linkbase.calculation_links, calls[c].parent), <<>>)
               facts == calls[c].facts
               has(name) == \E i \in 1..Len(facts) : facts[i][1] = name
               value(name) == facts[CHOOSE i \in 1..Len(facts) : facts[i][1] = name][2]
               counted == {i \in 1..Len(arcs) : has(arcs[i].to)}
               term(i) == scaled(arcs[i].weight, 0 - 1) * scaled(value(arcs[i].to), 0 - 3)
               RECURSIVE sum(_)
               sum(S) == IF S = {} THEN 0
                         ELSE LET i == CHOOSE k \in S : TRUE IN term(i) + sum(S \ {i})
           IN  IF arcs = <<>>
               THEN calls[c].result = IF has(calls[c].parent) THEN value(calls[c].parent)
                                      ELSE normal_f64(FALSE, 0, 0)
               ELSE IF \E i \in counted : arcs[i].weight.kind = "nan"
                    THEN calls[c].result.kind = "nan"
                    ELSE /\ calls[c].result.kind = "finite"
                         /\ scaled(calls[c].result, 0 - 4) = sum(counted)

\* the total of a parent with the arcs +B and -C on B = 60 and C = 40.02 is
\* 19.98, whatever fact the parent has itself
C24_SixtyMinusFortyPointZeroTwo ==
    \E c \in 1..Len(calls) :
        /\ calls[c].op = "calculate_total"
        /\ calls[c].parent = <<"A">>
        /\ LET arcs == unwrap_or(map_get(linkbase.calculation_links, <<"A">>), <<>>)
           IN  /\ Len(arcs) = 2
               /\ arcs[1].to = <<"B">> /\ arcs[1].weight = ONE
               /\ arcs[2].to = <<"C">> /\ arcs[2].weight = [ONE EXCEPT !.neg = TRUE]
        /\ facts_get(calls[c].facts, <<"A">>) = Some(normal_f64(FALSE, 100, 0))
        /\ facts_get(calls[c].facts, <<"B">>) = Some(normal_f64(FALSE, 60, 0))
        /\ facts_get(calls[c].facts, <<"C">>) = Some(normal_f64(FALSE, 4002, 0 - 2))
        /\ calls[c].result = normal_f64(FALSE, 1998, 0 - 2)

\* C25: validate_calculations reports exactly one CalculationInconsistency for
\* each parent that has calculation arcs, has a fact of its own, and whose
\* calculated total differs from that fact by more than 0.01, and nothing for
\* any other concept.  With the arcs A <- B (weight 1) + C (weight 1) and the
\* facts B = 60, C = 40, A = 100 it reports nothing; with C = 40.02 it reports
\* exactly one inconsistency, for A.  Differences are taken in ten-thousandths.
C25_OneReportPerInconsistentParent ==
    \A c \in 1..Len(calls) :
        calls[c].op = "validate_calculations"
        => LET map == linkbase.calculation_links
               facts == calls[c].facts
               errors == calls[c].result
               has(name) == \E i \in 1..Len(facts) : facts[i][1] = name
               value(name) == facts[CHOOSE i \in 1..Len(facts) : facts[i][1] = name][2]
               arcs(parent) == unwrap_or(map_get(map, parent), <<>>)
               counted(parent) == {i \in 1..Len(arcs(parent)) : has(arcs(parent)[i].to)}
               term(a) == scaled(a.weight, 0 - 1) * scaled(value(a.to), 0 - 3)
               RECURSIVE sum(_, _)
               sum(parent, S) ==
                   IF S = {} THEN 0
                   ELSE LET i == CHOOSE k \in S : TRUE
                        IN  term(arcs(parent)[i]) + sum(parent, S \ {i})
               distance(parent) ==
                   LET d == sum(parent, counted(parent)) - scaled(value(parent), 0 - 4)
                   IN  IF d < 0 THEN 0 - d ELSE d
               inconsistent(parent) ==
                   /\ arcs(parent) # <<>>
                   /\ has(parent)
                   /\ \A i \in counted(parent) : arcs(parent)[i].weight.kind = "finite"
                   /\ distance(parent) > 100
               reports(parent) == {e \in 1..Len(errors) : errors[e].concept = parent}
               weights(parent) == [i \in 1..Len(arcs(parent)) |->
                                      <<arcs(parent)[i].to, arcs(parent)[i].weight>>]
               example(fact_c) ==
                   /\ Len(map) = 1
                   /\ weights(<<"A">>) = <<<<<<"B">>, ONE>>, <<<<"C">>, ONE>>>>
                   /\ facts_get(facts, <<"A">>) = Some(normal_f64(FALSE, 100, 0))
                   /\ facts_get(facts, <<"B">>) = Some(normal_f64(FALSE, 60, 0))
                   /\ facts_get(facts, <<"C">>) = Some(fact_c)
           IN  /\ \A e \in 1..Len(errors) : errors[e].kind = "CalculationInconsistency"
               /\ \A parent \in CONCEPTS \cup {errors[e].concept : e \in 1..Len(errors)} :
                      Cardinality(reports(parent)) = IF inconsistent(parent) THEN 1 ELSE 0
               /\ example(normal_f64(FALSE, 40, 0)) => errors = <<>>
               /\ example(normal_f64(FALSE, 4002, 0 - 2))
                  => Len(errors) = 1 /\ errors[1].concept = <<"A">>

\* the example's second half: A <- B + C with B = 60, C = 40.02 and A = 100 is
\* reported once, for A, with the total 100.02
C25_ReportedFortyPointZeroTwo ==
    \E c \in 1..Len(calls) :
        /\ calls[c].op = "validate_calculations"
        /\ Len(linkbase.calculation_links) = 1
        /\ Len(linkbase.calculation_links[1][2]) = 2
        /\ facts_get(calls[c].facts, <<"C">>) = Some(normal_f64(FALSE, 4002, 0 - 2))
        /\ calls[c].result
               = <<[kind |-> "CalculationInconsistency", concept |-> <<"A">>,
                    expected |-> normal_f64(FALSE, 10002, 0 - 2),
                    actual |-> normal_f64(FALSE, 100, 0)]>>

----------------------------------------------------------------------------
(* Properties of the validator, checked under SimpleSpec *)

\* the facts whose context index or nonzero unit index denotes nothing
bad_references(doc) ==
    {i \in 1..facts_len(doc.facts) :
        \/ doc.facts.context_ids[i] >= Len(doc.contexts)
        \/ (doc.facts.unit_ids[i] > 0 /\ doc.facts.unit_ids[i] > Len(doc.units))}

\* C26: validating a Document with a fact whose context index is not below
\* the number of contexts, or whose nonzero unit index exceeds the number of
\* units, reports the document as failing, with an error, in the default
\* configuration as well as in strict mode.
C26_BadReferenceFailsValidation ==
    \A c \in 1..Len(calls) :
        (calls[c].op = "validate" /\ bad_references(document) # {})
        => /\ calls[c].result.ok
           /\ ~calls[c].result.val.is_valid
           /\ calls[c].result.val.errors # <<>>

----------------------------------------------------------------------------
(* Subtree skipping on its own: skip_element_from_tag with the cursor after *)
(* the tag name of an element "a", on buffers that hold the well-formed    *)
(* element and then what follows it in its parent                          *)

\* what an element may hold: opening and closing tags of "b", self-closing
\* tags, text; delta is what a tag adds to the nesting depth
SKIP_TOKENS ==
  <<
    \* 1: <b>
    [text |-> <<"<", "b", ">">>,
     delta |-> 1],
    \* 2: <b h="x/y">
    [text |-> <<"<", "b", " ", "h", "=", "\"", "x", "/", "y", "\"", ">">>,
     delta |-> 1],
    \* 3: </b>
    [text |-> <<"<", "/", "b", ">">>,
     delta |-> 0 - 1],
    \* 4: <c/>
    [text |-> <<"<", "c", "/", ">">>,
     delta |-> 0],
    \* 5: <c n="1" />
    [text |-> <<"<", "c", " ", "n", "=", "\"", "1", "\"", " ", "/", ">">>,
     delta |-> 0],
    \* 6: t
    [text |-> <<"t">>,
     delta |-> 0],
    \* 7: <c y=">"/>
    [text |-> <<"<", "c", " ", "y", "=", "\"", ">", "\"", "/", ">">>,
     delta |-> 0],
    \* 8: <b y="/>">
    [text |-> <<"<", "b", " ", "y", "=", "\"", "/", ">", "\"", ">">>,
     delta |-> 1]
  >>

\* the opening tags of "a" after its name, and the closing tag
SKIP_OPENINGS == {<<">">>, <<" ", "i", "d", "=", "\"", "1", "\"", ">">>}
SKIP_SELF_CLOSINGS == {<<"/", ">">>, <<" ", "i", "d", "=", "\"", "1", "\"", "/", ">">>}
SKIP_CLOSING == <<"<", "/", "a", ">">>

\* what follows the element: a sibling and the parent's closing tag
SKIP_TRAILER == <<"<", "d", "/", ">", "<", "/", "r", ">">>

MaxSkipTokens == 4

\* the token sequences that nest: no closing tag without its opening tag
\* before it, no opening tag left open
RECURSIVE nests(_, _)
nests(tokens, depth) ==
    IF tokens = <<>> THEN depth = 0
    ELSE /\ depth + SKIP_TOKENS[Head(tokens)].delta >= 0
         /\ nests(Tail(tokens), depth + SKIP_TOKENS[Head(tokens)].delta)

SkipBuffers ==
    LET name == <<"<", "a">>
        contents ==
            UNION {{tokens \in [1..k -> 1..Len(SKIP_TOKENS)] : nests(tokens, 0)} :
                      k \in 0..MaxSkipTokens}
        text(tokens) == concat([i \in 1..Len(tokens) |-> SKIP_TOKENS[tokens[i]].text])
    IN  {name \o open \o text(tokens) \o SKIP_CLOSING \o SKIP_TRAILER :
            open \in SKIP_OPENINGS, tokens \in contents}
        \cup {name \o self \o SKIP_TRAILER : self \in SKIP_SELF_CLOSINGS}

\* the cursor is after the tag name, where parse_element calls the skip
SkipInit ==
    /\ data \in SkipBuffers
    /\ pos = 2
    /\ avx2 = FALSE
    /\ in_xbrl_root = FALSE
    /\ current_tuple_stack = <<>>
    /\ document = empty_document
    /\ interner = <<>>
    /\ ret = Running
    /\ last = "new"
    /\ calls = <<>>
    /\ linkbase = new_linkbase
    /\ cache = new_cache(0)

\* FullXbrlParser::skip_element_from_tag
SkipElement ==
    /\ last = "new"
    /\ last' = "skip_element_from_tag"
    /\ LET skipped(r) ==
               /\ pos' = IF r.ok THEN r.pos ELSE pos
               /\ ret' = IF r.ok THEN ret ELSE Failed(r.err)
       IN  skipped(skip_element_from_tag(pos))
    /\ UNCHANGED <<calls, linkbase, cache, data, avx2, in_xbrl_root, current_tuple_stack, document,
                   interner>>

SkipNext == SkipElement

SkipSpec == SkipInit /\ [][SkipNext]_vars

----------------------------------------------------------------------------
(* Properties of subtree skipping, checked under SkipSpec *)

\* C28: skipping the subtree of an element ends with the cursor immediately
\* after the element's own closing tag, or after its own "/>" when it is
\* self-closing, for every well-formed subtree of nested opening, closing
\* and self-closing tags.
C28_SkipEndsAfterOwnClosingTag ==
    last = "skip_element_from_tag"
    => /\ ret = Running
       /\ pos = Len(data) - Len(SKIP_TRAILER)

----------------------------------------------------------------------------
(* Properties of the closing tags of the top-level loop, checked under Spec *)

\* the names of the open tuples a closing tag's name matches, by position in
\* the stack
matching_tuples(tag_name) ==
    {i \in 1..Len(current_tuple_stack) :
        \/ tag_name = current_tuple_stack[i].name
        \/ ends_with(tag_name, <<":">> \o current_tuple_stack[i].name)}

\* the iteration is at a closing tag that names neither the root nor the
\* tuple on top of the stack
at_unmatched_closing_tag ==
    /\ at_closing_tag
    /\ closing_name.val # lit.xbrl
    /\ ~ends_with(closing_name.val, lit.c_xbrl)
    /\ Len(current_tuple_stack) \notin matching_tuples(closing_name.val)

\* C29: a closing tag seen by the top-level loop that matches neither the root
\* nor the name of the tuple on top of the open-tuple stack is ignored: the
\* document, the open-tuple stack (a deeper tuple of that name included) and
\* the in-root flag are unchanged, no error is raised, and only the cursor
\* moves, to just after the tag's '>'.
C29_UnmatchedClosingTagIsIgnored ==
    [][at_unmatched_closing_tag
       => /\ document' = document
          /\ current_tuple_stack' = current_tuple_stack
          /\ in_xbrl_root' = in_xbrl_root
          /\ interner' = interner
          /\ ret' \in {Running, Returned(document)}
          /\ pos' > closing_name.pos
          /\ data[pos'] = ">"
          /\ \A i \in (closing_name.pos + 1)..(pos' - 1) : data[i] # ">"]_vars

\* a closing tag was ignored that names an open tuple below the top of the
\* stack: <t:a><t:b></t:a>
C29_IgnoredCloseOfDeeperTuple ==
    /\ last = "close_ignored"
    /\ pos >= 6
    /\ Len(current_tuple_stack) >= 2
    /\ slice(pos - 6, pos) = <<"<", "/">> \o current_tuple_stack[1].name \o <<">">>
    /\ current_tuple_stack[Len(current_tuple_stack)].name # current_tuple_stack[1].name

----------------------------------------------------------------------------
(* Whole documents with something after them: a prolog, the root's opening  *)
(* tag, a context and a unit, complete elements, and then the root's        *)
(* closing tag and a trailer, or the end of the input.  No element holds    *)
(* the bytes </xbrl>.                                                       *)

\* <?xml version="1.0"?>\n<!DOCTYPE x>
PROLOG == MISC_PIECES[1] \o MISC_PIECES[3]

\* <link:x><c y=">"/></link:x>
LINK_WITH_GT_IN_VALUE ==
    <<"<", "l", "i", "n", "k", ":", "x", ">", "<", "c", " ", "y", "=", "\"", ">", "\"", "/",
      ">", "<", "/", "l", "i", "n", "k", ":", "x", ">">>

\* the children of the root after the context and the unit: a fact with a
\* value and a self-closing one, a tuple, empty and with a fact, skipped link
\* elements, a schemaRef, a footnoteLink, a comment and a CDATA section
DOCUMENT_PIECES ==
    <<FACT_PIECES[1],
      FACT_PIECES[3],
      TUPLE_PIECES[1] \o TUPLE_PIECES[3],
      TUPLE_PIECES[1] \o TUPLE_PIECES[5] \o TUPLE_PIECES[3],
      MISC_PIECES[6],
      LINK_WITH_GT_IN_VALUE,
      MISC_PIECES[5],
      MISC_PIECES[10],
      MISC_PIECES[2],
      MISC_PIECES[7]>>

\* what may follow the root's closing tag
TRAILERS ==
  <<
    \* 1: \n
    <<"\n">>,
    \* 2: <
    <<"<">>,
    \* 3:  txt
    <<" ", "t", "x", "t">>,
    \* 4: </xbrl>
    <<"<", "/", "x", "b", "r", "l", ">">>,
    \* 5: <a:x contextRef="c9">7</a:x>
    <<"<", "a", ":", "x", " ", "c", "o", "n", "t", "e", "x", "t", "R", "e", "f", "=", "\"", "c",
      "9", "\"", ">", "7", "<", "/", "a", ":", "x", ">">>,
    \* 6: <!-- c
    <<"<", "!", "-", "-", " ", "c">>
  >>

\* a document whose root is not xbrl: <r><y/></r>
NO_ROOT ==
    <<"<", "r", ">", "<", "y", "/", ">", "<", "/", "r", ">">>

MaxDocumentPieces == 2

DocumentBuffers ==
    LET opened == Buffers(PROLOG \o ROOT_OPEN \o CONTEXT_C1 \o UNIT_U1, DOCUMENT_PIECES, <<>>,
                          MaxDocumentPieces)
    IN  opened
        \cup {body \o ROOT_CLOSE : body \in opened}
        \cup {body \o ROOT_CLOSE \o TRAILERS[i] : body \in opened, i \in 1..Len(TRAILERS)}
        \cup {NO_ROOT}

DocumentInit ==
    /\ data \in DocumentBuffers
    /\ pos = 0
    /\ avx2 \in BOOLEAN
    /\ in_xbrl_root = FALSE
    /\ current_tuple_stack = <<>>
    /\ document = empty_document
    /\ interner = <<>>
    /\ ret = Running
    /\ last = "new"
    /\ calls = <<>>
    /\ linkbase = new_linkbase
    /\ cache = new_cache(0)

DocumentSpec == DocumentInit /\ [][Next]_vars

----------------------------------------------------------------------------
(* Properties of the end of the parse, checked under DocumentSpec *)

\* the position after the first </xbrl> of the buffer, or the end of the
\* buffer when it has none
root_close_end ==
    LET after(hit) == IF is_some(hit) THEN unwrap(hit) + Len(ROOT_CLOSE) ELSE Len(data)
    IN  after(find_str(data, ROOT_CLOSE))

\* C30: the parse ends at the first closing tag that matches the root and
\* returns the Document accumulated up to that point: the cursor never goes
\* past that tag, and no byte after it turns the result into an error; when
\* the input ends with no root closing tag the parse returns the accumulated
\* Document at the end of the input.
C30_ParseEndsAtFirstRootClosingTag ==
    /\ pos <= root_close_end
    /\ ret.kind # "Err"
    /\ ret.kind = "Ok" => /\ pos = root_close_end
                          /\ ret.document = document

----------------------------------------------------------------------------
(* Properties of the cursor after a fact, checked under Spec *)

\* the whole fact elements of the input families
WHOLE_FACTS ==
    {FACT_PIECES[i] : i \in {1, 2, 3, 4, 5, 6, 7, 8, 11}} \cup {TUPLE_PIECES[5]}

\* the iteration is at the opening tag of the whole fact element piece
at_whole_fact(piece) ==
    /\ at_tag
    /\ in_xbrl_root
    /\ slice(token_start, Min(token_start + Len(piece), Len(data))) = piece

\* C31: when the fact handler returns without error, the cursor is
\* immediately after the fact element's own end (its "/>" if self-closing,
\* otherwise its own closing tag), and no byte of a following sibling has
\* been consumed; this holds for self-closing facts, nil facts and facts
\* followed directly by another opening tag.
C31_FactHandlerEndsAfterOwnElement ==
    [][\A piece \in WHOLE_FACTS :
           (/\ at_whole_fact(piece)
            /\ last' = "parse_fact"
            /\ ret'.kind # "Err")
           => pos' = token_start + Len(piece)]_vars

----------------------------------------------------------------------------
(* Properties of telling tuples from facts, checked under Spec *)

\* the iteration is at the opening tag, with attributes that parse, of a
\* namespace-qualified element inside the root that is not a context, a
\* unit, a schemaRef or a footnoteLink and has no structural prefix
at_fact_or_tuple ==
    /\ at_element
    /\ in_xbrl_root
    /\ element.ok
    /\ contains(element.val, ":")
    /\ \A suffix \in {lit.c_xbrl, lit.c_context, lit.c_unit, lit.c_schemaRef,
                      lit.c_footnoteLink} : ~ends_with(element.val, suffix)
    /\ \A prefix \in {lit.link_, lit.xbrldi_, lit.xbrli_} : ~starts_with(element.val, prefix)
    /\ parse_attributes(element.pos).ok

\* the opening tag has a contextRef attribute
has_context_ref ==
    \E i \in 1..Len(parse_attributes(element.pos).val) :
        parse_attributes(element.pos).val[i][1] = lit.contextRef

\* C32: inside the root, a namespace-qualified element that is not context,
\* unit, schemaRef or footnoteLink and has no structural prefix is treated as
\* a tuple (one builder pushed on the open-tuple stack, no fact stored)
\* exactly when its opening tag has no contextRef attribute, and as a fact
\* exactly when it has one; the look-ahead leaves the cursor where it was, so
\* the handler reads the opening tag from after its name.
C32_TupleExactlyWithoutContextRef ==
    [][at_fact_or_tuple
       => IF has_context_ref
          THEN /\ last' = "parse_fact"
               /\ Len(current_tuple_stack') = Len(current_tuple_stack)
               /\ ret'.kind # "Err"
                  => \/ /\ current_tuple_stack = <<>>
                        /\ Len(document'.facts) = Len(document.facts) + 1
                     \/ /\ current_tuple_stack # <<>>
                        /\ document' = document
                        /\ Len(current_tuple_stack'[Len(current_tuple_stack)].facts)
                               = Len(current_tuple_stack[Len(current_tuple_stack)].facts) + 1
          ELSE /\ last' = "parse_tuple"
               /\ document' = document
               /\ ret'.kind # "Err"
                  => /\ current_tuple_stack' =
                            Append(current_tuple_stack,
                                [id |-> attr_find(parse_attributes(element.pos).val, lit.id),
                                 name |-> element.val,
                                 facts |-> <<>>])
                     /\ pos' > parse_attributes(element.pos).pos
                     /\ data[pos'] = ">"
                     /\ \A i \in (element.pos + 1)..(pos' - 1) : data[i] # ">"]_vars

\* a tuple was pushed while another was open, and a fact went into it
C32_TupleInTupleThenFact ==
    /\ last = "parse_fact"
    /\ Len(current_tuple_stack) = 2
    /\ current_tuple_stack[2].facts # <<>>
    /\ current_tuple_stack[2].facts[1].kind = "Fact"
    /\ current_tuple_stack[1].facts = <<>>

----------------------------------------------------------------------------
(* Pattern search on its own: SimdScanner::find_pattern from any cursor of a *)
(* buffer made of a run of one byte, a word and a second run, on hosts with  *)
(* and without AVX2.  As the cursor moves, the word crosses the block        *)
(* boundaries of the haystack, and the haystack gets shorter than a vector   *)
(* and than the pattern.                                                     *)

\* the bytes the runs are made of: one that starts patterns and one that is
\* in none
FIND_FILLS == {"a", "."}

FIND_WORDS == {<<>>, <<"a", "b">>, <<"b">>, <<"a", "a", "b", "c">>, <<"a", "b", "a", "b", "c">>}

FIND_PATTERNS == {<<"a">>, <<"a", "b">>, <<"a", "b", "c">>, <<"b", "a", "b">>, <<".", "a">>}

\* the longest first run: one byte more than a vector
MaxLead == 33

\* the lengths of the second run: none, and one byte more than a vector
FIND_TRAILS == {0, 33}

FindBuffers ==
    {[i \in 1..lead |-> fill] \o word \o [i \in 1..trail |-> fill] :
        fill \in FIND_FILLS, lead \in {0, MaxLead}, word \in FIND_WORDS, trail \in FIND_TRAILS}

FindInit ==
    /\ data \in FindBuffers
    /\ pos \in 0..Len(data)
    /\ avx2 \in BOOLEAN
    /\ in_xbrl_root = FALSE
    /\ current_tuple_stack = <<>>
    /\ document = empty_document
    /\ interner = <<>>
    /\ ret = Running
    /\ last = "new"
    /\ calls = <<>>
    /\ linkbase = new_linkbase
    /\ cache = new_cache(0)

\* the position the parser saved last, if any: calls holds the last call
saved_pos == IF calls = <<>> THEN NoneOpt ELSE calls[1].saved

\* a scanner method called with arg that returns result and leaves the cursor
\* at p, with the parser's saved position
scanner_step(name, arg, result, p, saved) ==
    /\ last' = name
    /\ calls' = <<[op |-> name, arg |-> arg, result |-> result, saved |-> saved]>>
    /\ pos' = p
    /\ UNCHANGED <<linkbase, cache, data, avx2, in_xbrl_root, current_tuple_stack, document,
                   interner, ret>>

\* SimdScanner::find_pattern
FindPattern ==
    \E pattern \in FIND_PATTERNS :
        scanner_step("find_pattern", pattern, find_pattern(pos, pattern), pos, saved_pos)

FindNext == FindPattern

FindSpec == FindInit /\ [][FindNext]_vars

----------------------------------------------------------------------------
(* Properties of pattern search, checked under FindSpec *)

\* C33: find_pattern with a non-empty pattern returns the smallest index at
\* or after the cursor at which the pattern occurs in the buffer, or none
\* when it does not occur, and the vectorized path and the scalar path return
\* the same result, for matches that straddle a block boundary and for
\* buffers shorter than the pattern too.
\* C33: find_pattern with a non-empty pattern returns the smallest index at
\* or after the cursor at which the pattern occurs in the buffer, or none
\* when it does not occur, and the vectorized path and the scalar path return
\* the same result, for matches that straddle a block boundary and for
\* buffers shorter than the pattern too.
C33_FindPatternIsFirstOccurrence ==
    last = "find_pattern"
    => LET pattern == calls[1].arg
           found == {i \in pos..(Len(data) - Len(pattern)) :
                        \A k \in 1..Len(pattern) : data[i + k] = pattern[k]}
           expected == IF found = {} THEN <<>>
                       ELSE <<CHOOSE i \in found : \A j \in found : i <= j>>
       IN  /\ calls[1].result = expected
           /\ map_add(find_pattern_avx2(remaining(pos), pattern), pos) = expected
           /\ map_add(find_pattern_scalar(remaining(pos), pattern), pos) = expected

\* a host with AVX2 found a match whose first byte is the last of the first
\* block of the haystack
C33_FoundAcrossBlockBoundary ==
    /\ last = "find_pattern"
    /\ avx2
    /\ Len(data) - pos >= 2 * VECTOR_WIDTH
    /\ Len(calls[1].arg) >= 2
    /\ calls[1].result = <<pos + VECTOR_WIDTH - 1>>

----------------------------------------------------------------------------
(* The scanner on its own: every sequence of SimdScanner methods and of the *)
(* parser's saving and restoring of the cursor, from SimdScanner::new       *)

\* empty, one byte, words between whitespace, and a run of whitespace longer
\* than a vector before a byte
ScannerBuffers ==
    {<<>>, <<"x">>, <<" ", "x", " ">>, <<"a", "b", " ", "\n", "a", "b", "c">>,
     whitespace_run(MaxRun) \o <<"x">>}

\* what the parser advances by (1, 2, 3 and 9), nothing, and more than a
\* buffer holds
ADVANCES == {0, 1, 2, 3, 9, 40}

SCANNER_BYTES == {"x", " ", "b"}

\* SimdScanner::new
ScannerInit ==
    /\ data \in ScannerBuffers
    /\ pos = 0
    /\ avx2 \in BOOLEAN
    /\ in_xbrl_root = FALSE
    /\ current_tuple_stack = <<>>
    /\ document = empty_document
    /\ interner = <<>>
    /\ ret = Running
    /\ last = "new"
    /\ calls = <<>>
    /\ linkbase = new_linkbase
    /\ cache = new_cache(0)

\* SimdScanner::advance
ScannerAdvance ==
    \E n \in ADVANCES : scanner_step("advance", n, None, advance(pos, n), saved_pos)

\* SimdScanner::skip_whitespace, from any cursor
ScannerSkipWhitespace ==
    scanner_step("skip_whitespace", None, None, skip_whitespace(pos), saved_pos)

\* SimdScanner::peek
ScannerPeek == scanner_step("peek", None, peek(pos), pos, saved_pos)

\* SimdScanner::is_eof
ScannerIsEof == scanner_step("is_eof", None, is_eof(pos), pos, saved_pos)

\* SimdScanner::find_next
ScannerFindNext ==
    \E byte \in SCANNER_BYTES :
        scanner_step("find_next", byte, find_next(pos, byte), pos, saved_pos)

\* let saved_pos = self.scanner.pos
SavePosition == scanner_step("save", None, None, pos, Some(pos))

\* self.scanner.pos = saved_pos
RestorePosition ==
    /\ is_some(saved_pos)
    /\ scanner_step("restore", None, None, unwrap(saved_pos), saved_pos)

ScannerNext ==
    \/ ScannerAdvance
    \/ ScannerSkipWhitespace
    \/ ScannerPeek
    \/ ScannerIsEof
    \/ ScannerFindNext
    \/ FindPattern
    \/ SavePosition
    \/ RestorePosition

ScannerSpec == ScannerInit /\ [][ScannerNext]_vars

----------------------------------------------------------------------------
(* Properties of the scanner, checked under ScannerSpec *)

\* C34: after any sequence of scanner operations and parser backtracks the
\* cursor satisfies 0 <= pos <= buffer length; advance(n) sets pos to
\* min(pos + n, length); peek returns none exactly when pos = length; peek,
\* is_eof, find_next and find_pattern leave the cursor unchanged.
C34_CursorStaysInBuffer ==
    [][/\ 0 <= pos'
       /\ pos' <= Len(data)
       /\ last' = "advance"
          => pos' = IF pos + calls'[1].arg <= Len(data) THEN pos + calls'[1].arg
                    ELSE Len(data)
       /\ last' = "peek"
          => /\ calls'[1].result = None <=> pos = Len(data)
             /\ pos < Len(data) => calls'[1].result = data[pos + 1]
       /\ last' \in {"peek", "is_eof", "find_next", "find_pattern"} => pos' = pos
      ]_vars

\* an advance by more than the buffer holds left the cursor at the buffer
\* length, with a position inside the buffer saved before
C34_ClampedAdvanceAfterSave ==
    /\ last = "advance"
    /\ calls[1].arg > Len(data)
    /\ pos = Len(data)
    /\ is_some(saved_pos)
    /\ 0 < unwrap(saved_pos)
    /\ unwrap(saved_pos) < Len(data)

----------------------------------------------------------------------------
(* One allocator serving several callers: each caller makes one            *)
(* intern_string request, and the steps of the requests interleave.  calls *)
(* holds the request of each caller and how far it has come: "call" before *)
(* the lock, "locked" with the guard, "missing" when the lookup of         *)
(* get_or_intern found nothing, "interned" with the symbol, "returned"     *)
(* once the guard is dropped.                                              *)

MaxCallers == 3

\* the caller holds the MutexGuard
holds_lock(request) == request.pc \in {"locked", "missing", "interned"}

\* the slip of a lock that never blocks
lock_is_always_free(requests) == TRUE

\* parking_lot::Mutex::lock returns when no guard is alive
lock_is_free(requests) == \A i \in 1..Len(requests) : ~holds_lock(requests[i])

\* the lookup of get_or_intern: the symbol of s, if it has one
interner_get(strings, s) ==
    IF \E i \in 1..Len(strings) : strings[i] = s
    THEN Some((CHOOSE i \in 1..Len(strings) : strings[i] = s) - 1)
    ELSE NoneOpt

\* ArenaAllocator::new, and the requests the callers are about to make
SharedInit ==
    /\ data = <<>>
    /\ pos = 0
    /\ avx2 = FALSE
    /\ in_xbrl_root = FALSE
    /\ current_tuple_stack = <<>>
    /\ document = empty_document
    /\ interner = <<>>
    /\ ret = Running
    /\ last = "new"
    /\ calls \in [1..MaxCallers ->
                     {[op |-> "intern_string", s |-> s, pc |-> "call", id |-> NoneOpt] :
                         s \in INTERN_STRINGS}]
    /\ linkbase = new_linkbase
    /\ cache = new_cache(0)

\* a step of caller i that takes its request to pc with the symbol id
request_step(name, i, pc, id) ==
    /\ last' = name
    /\ calls' = [calls EXCEPT ![i].pc = pc, ![i].id = id]
    /\ UNCHANGED <<linkbase, cache, data, pos, avx2, in_xbrl_root, current_tuple_stack, document,
                   ret>>

\* self.string_interner.lock()
Lock ==
    \E i \in 1..Len(calls) :
        /\ calls[i].pc = "call"
        /\ lock_is_free(calls)
        /\ request_step("lock", i, "locked", NoneOpt)
        /\ UNCHANGED interner

\* get_or_intern: the lookup
Lookup ==
    \E i \in 1..Len(calls) :
        /\ calls[i].pc = "locked"
        /\ LET looked_up(found) ==
                   request_step("lookup", i, IF is_some(found) THEN "interned" ELSE "missing",
                                found)
           IN  looked_up(interner_get(interner, calls[i].s))
        /\ UNCHANGED interner

\* get_or_intern: the string that was not found gets the next symbol
Intern ==
    \E i \in 1..Len(calls) :
        /\ calls[i].pc = "missing"
        /\ request_step("intern", i, "interned", Some(Len(interner)))
        /\ interner' = Append(interner, calls[i].s)

\* the guard is dropped and the symbol returned as u32
Unlock ==
    \E i \in 1..Len(calls) :
        /\ calls[i].pc = "interned"
        /\ request_step("unlock", i, "returned", calls[i].id)
        /\ UNCHANGED interner

SharedNext ==
    \/ Lock
    \/ Lookup
    \/ Intern
    \/ Unlock

SharedSpec == SharedInit /\ [][SharedNext]_vars

----------------------------------------------------------------------------
(* Properties of the shared interner, checked under SharedSpec *)

\* C35: when several callers issue intern_string requests on one allocator in
\* any interleaving, each request runs under the interner lock as one atomic
\* step: at most one caller is past the lock at a time, all requests with
\* equal content receive the same id, requests with different content receive
\* different ids, and no id is issued for two contents nor two ids for one.
C35_InterningIsAtomicPerRequest ==
    LET has_id == {i \in 1..Len(calls) : calls[i].pc \in {"interned", "returned"}}
    IN  /\ Cardinality({i \in 1..Len(calls) : holds_lock(calls[i])}) <= 1
        /\ \A i \in has_id, j \in has_id :
               (calls[i].s = calls[j].s) <=> (calls[i].id = calls[j].id)
        /\ \A i \in has_id :
               /\ calls[i].id # <<>>
               /\ calls[i].id[1] < Len(interner)
               /\ interner[calls[i].id[1] + 1] = calls[i].s
        /\ \A a \in 1..Len(interner), b \in 1..Len(interner) :
               interner[a] = interner[b] => a = b

\* all callers have returned: the first two asked for the same content and
\* got one id, the third asked for another and got another, and the third
\* caller was served before them
C35_TwoEqualOneDifferent ==
    /\ \A i \in 1..Len(calls) : calls[i].pc = "returned"
    /\ Len(calls) = 3
    /\ calls[1].s = calls[2].s
    /\ calls[1].id = calls[2].id
    /\ calls[3].s # calls[1].s
    /\ calls[3].id = <<0>>
    /\ calls[1].id = <<1>>

-----------------------------------------------------------------------------
(* Termination of FullXbrlParser::parse.  The inputs are one document that  *)
(* holds an element for every handler, and the same document cut off after  *)
(* each of its bytes, so that every loop of every handler meets the end of   *)
(* the buffer at every place it can.  The scheduler of the model is the      *)
(* program counter of the one thread that runs parse: while the loop         *)
(* condition holds the next iteration is taken.  That is weak fairness of    *)
(* Next, WF_vars(Next), stated with the loop condition in the place of       *)
(* ENABLED <<Next>>_vars: every action of Next has ret = Running in its      *)
(* guard, and the branches of the loop leave no running state without an     *)
(* iteration to take.  The handlers' inner loops are the recursive operators *)
(* of the model; an iteration is one evaluation of them.                     *)

\* prolog, an element before the root, the root with namespaces, and inside it
\* schemaRef, two contexts, two units, a footnoteLink, facts with text, mixed
\* and fraction content, a tuple, a stray closing tag, a CDATA section, text
\* and a skipped element
WHOLE_DOCUMENT ==
    concat(<<MISC_PIECES[1], MISC_PIECES[3], MISC_PIECES[2], MISC_PIECES[6],
             MISC_PIECES[4], MISC_PIECES[5], MISC_PIECES[12], CONTEXT_C1, UNIT_U1,
             UNIT_PIECES[1], UNIT_PIECES[4], UNIT_PIECES[5], MISC_PIECES[10],
             FACT_PIECES[1], FACT_PIECES[8], FACT_PIECES[7],
             TUPLE_PIECES[1], TUPLE_PIECES[5], TUPLE_PIECES[3], TUPLE_PIECES[4],
             MISC_PIECES[7], MISC_PIECES[11], MISC_PIECES[6], ROOT_CLOSE>>)

TruncatedBuffers == {SubSeq(WHOLE_DOCUMENT, 1, n) : n \in 0..Len(WHOLE_DOCUMENT)}

TerminationInit ==
    /\ data \in TruncatedBuffers
    /\ pos = 0
    /\ avx2 \in BOOLEAN
    /\ in_xbrl_root = FALSE
    /\ current_tuple_stack = <<>>
    /\ document = empty_document
    /\ interner = <<>>
    /\ ret = Running
    /\ last = "new"
    /\ calls = <<>>
    /\ linkbase = new_linkbase
    /\ cache = new_cache(0)

\* `while !self.scanner.is_eof()` has been left, or parse has returned early
loop_has_ended == ret # Running

TerminationSpec ==
    /\ TerminationInit
    /\ [][Next]_vars
    /\ ([]<>loop_has_ended \/ []<><<Next>>_vars)

\* an iteration of the top-level loop either fails or leaves the cursor
\* strictly further than it found it, inside the buffer
iteration_advances ==
    in_loop => (ret'.kind = "Err" \/ (pos' > pos /\ pos' <= Len(data)))

\* C36: the parse terminates on every finite input: every iteration of the
\* top-level loop returns an error or leaves the cursor strictly further than
\* at its start, the handlers' loops come to an end, and so the parse
\* eventually returns a Document or an error
C36_ParseTerminates ==
    /\ [][iteration_advances]_vars
    /\ <>(ret.kind \in {"Ok", "Err"})

\* the parse of the whole document has returned at its root closing tag,
\* after iterations of every handler with an inner loop
C36_WholeDocumentReturned ==
    /\ data = WHOLE_DOCUMENT
    /\ ret.kind = "Ok"
    /\ last = "close_root"
    /\ Len(document.contexts) = 2
    /\ Len(document.units) = 2
    /\ Len(document.facts) > 0
    /\ Len(document.tuples) > 0
    /\ Len(document.footnotes) > 0

-----------------------------------------------------------------------------
(* Well-formed documents of facts and tuples: after the root's opening tag,  *)
(* a context and a unit, a sequence of whole elements, each with its closing *)
(* tag or self-closing, and the root's closing tag                           *)

\* <t:c/>
EMPTY_TUPLE ==
    <<"<", "t", ":", "c", "/", ">">>

\* a fact, tuples that are empty, hold a fact and hold a tuple with a fact, and
\* a self-closing element without contextRef, alone and inside a tuple
WHOLE_ELEMENTS ==
    <<FACT_PIECES[1],
      TUPLE_PIECES[1] \o TUPLE_PIECES[3],
      TUPLE_PIECES[1] \o TUPLE_PIECES[5] \o TUPLE_PIECES[3],
      TUPLE_PIECES[1] \o TUPLE_PIECES[2] \o TUPLE_PIECES[5] \o TUPLE_PIECES[4]
          \o TUPLE_PIECES[3],
      EMPTY_TUPLE,
      TUPLE_PIECES[1] \o EMPTY_TUPLE \o TUPLE_PIECES[3]>>

MaxWholeElements == 3

WellFormedDocuments ==
    Buffers(ROOT_OPEN \o CONTEXT_C1 \o UNIT_U1, WHOLE_ELEMENTS, ROOT_CLOSE, MaxWholeElements)

\* the well-formed documents, and for the branches of the loop that they do
\* not take the document with every kind of element and a lone '<'
WellFormedInit ==
    /\ data \in WellFormedDocuments \cup {WHOLE_DOCUMENT, MISC_PIECES[8]}
    /\ pos = 0
    /\ avx2 \in BOOLEAN
    /\ in_xbrl_root = FALSE
    /\ current_tuple_stack = <<>>
    /\ document = empty_document
    /\ interner = <<>>
    /\ ret = Running
    /\ last = "new"
    /\ calls = <<>>
    /\ linkbase = new_linkbase
    /\ cache = new_cache(0)

WellFormedSpec == WellFormedInit /\ [][Next]_vars

\* how often pattern occurs in s
count_of(s, pattern) ==
    Cardinality({i \in 1..(Len(s) - Len(pattern) + 1) :
                    SubSeq(s, i, i + Len(pattern) - 1) = pattern})

\* the facts and the tuples in the items of a tuple, at every depth
RECURSIVE facts_within(_)
facts_within(items) ==
    IF items = <<>> THEN 0
    ELSE (IF Head(items).kind = "Fact" THEN 1
          ELSE facts_within(Head(items).tuple.facts))
         + facts_within(Tail(items))

RECURSIVE tuples_within(_)
tuples_within(items) ==
    IF items = <<>> THEN 0
    ELSE (IF Head(items).kind = "Tuple"
          THEN 1 + tuples_within(Head(items).tuple.facts)
          ELSE 0)
         + tuples_within(Tail(items))

\* document.tuples as the items of one tuple
as_items(tuples) == [i \in 1..Len(tuples) |-> [kind |-> "Tuple", tuple |-> tuples[i]]]

\* C37: for a well-formed document the open-tuple stack is empty when the
\* root closing tag is reached, every opened tuple is in the returned Document
\* and no parsed fact is discarded; a self-closing element without contextRef
\* does not stay on the stack
C37_StackEmptyAtRootClose ==
    (data \in WellFormedDocuments /\ last = "close_root" /\ ret.kind = "Ok") =>
        /\ current_tuple_stack = <<>>
        /\ tuples_within(as_items(ret.document.tuples)) = count_of(data, <<"<", "t", ":">>)
        /\ Len(ret.document.facts) + facts_within(as_items(ret.document.tuples))
               = count_of(data, lit.contextRef)

\* the same for the documents whose every element has a closing tag
C37_StackEmptyWithoutSelfClosing ==
    count_of(data, EMPTY_TUPLE) = 0 => C37_StackEmptyAtRootClose

-----------------------------------------------------------------------------
(* The order of the footnotes of one footnoteLink element, checked under Spec *)

\* <footnote and a space: the start of the opening tag of a footnote element
FOOTNOTE_TAG ==
    <<"<", "f", "o", "o", "t", "n", "o", "t", "e", " ">>

\* the step is a parse_footnote_link that returned Ok
footnote_link_parsed ==
    /\ dispatches("parse_footnote_link")
    /\ last' = "parse_footnote_link"
    /\ ret'.kind # "Err"

\* the footnotes the element's map holds, in the order they were first inserted
footnotes_in_input_order(map) == [i \in 1..Len(map) |-> map[i][2]]

\* C38: the footnotes of one footnoteLink element are appended to
\* document.footnotes in the order their footnote elements appear in the input,
\* one entry per footnote element, so that every parse of the same input gives
\* the same footnote sequence
C38_FootnotesInInputOrder ==
    [][footnote_link_parsed =>
          LET r == parse_footnote_link(element.pos)
          IN  /\ document'.footnotes =
                     document.footnotes \o footnotes_in_input_order(r.val)
              /\ Len(r.val) = count_of(slice(token_start, r.pos), FOOTNOTE_TAG)]_vars

\* the same for the elements with at most one footnote
C38_OneFootnoteInInputOrder ==
    [][(/\ footnote_link_parsed
        /\ count_of(slice(token_start, parse_footnote_link(element.pos).pos),
                    FOOTNOTE_TAG) <= 1)
       => LET r == parse_footnote_link(element.pos)
          IN  /\ document'.footnotes =
                     document.footnotes \o footnotes_in_input_order(r.val)
              /\ Len(r.val) = count_of(slice(token_start, r.pos), FOOTNOTE_TAG)]_vars

-----------------------------------------------------------------------------
(* A LockFreeCache shared by threads.  Each thread makes one call of insert; *)
(* a call is the steps between which the DashMap lets other threads in: the  *)
(* size check, iter().next(), remove and insert.  calls[i] is the call of    *)
(* thread i: where it is, the entry iter().next() gave it, and, once its     *)
(* DashMap::insert is done, the place of that insert among all of them.      *)

CACHE_KEYS == {"a", "b", "c"}

CACHE_VALUES == {1, 2}

MaxCapacity == 2

MaxThreads == 3

\* LockFreeCache::new(capacity), and the calls the threads are about to make
CacheInit ==
    /\ data = <<>>
    /\ pos = 0
    /\ avx2 = FALSE
    /\ in_xbrl_root = FALSE
    /\ current_tuple_stack = <<>>
    /\ document = empty_document
    /\ interner = <<>>
    /\ ret = Running
    /\ last = "new"
    /\ calls \in [1..MaxThreads ->
                     {[op |-> "insert", key |-> k, value |-> v, pc |-> "call",
                       victim |-> NoneOpt, seq |-> 0] :
                         k \in CACHE_KEYS, v \in CACHE_VALUES}]
    /\ linkbase = new_linkbase
    /\ cache \in {new_cache(capacity) : capacity \in 0..MaxCapacity}

\* a step of thread i that takes its call to pc and leaves the map as map
cache_step(name, i, pc, victim, map) ==
    /\ last' = name
    /\ calls' = [calls EXCEPT ![i].pc = pc, ![i].victim = victim]
    /\ cache' = [cache EXCEPT !.map = map]
    /\ UNCHANGED <<linkbase, data, pos, avx2, in_xbrl_root, current_tuple_stack, document,
                   interner, ret>>

\* if self.map.len() >= self.capacity
CheckSize ==
    \E i \in 1..Len(calls) :
        /\ calls[i].pc = "call"
        /\ cache_step("len", i,
                      IF dash_len(cache.map) >= cache.capacity THEN "full" ELSE "room",
                      NoneOpt, cache.map)

\* self.map.iter().next() on a map with entries: any of them, then
\* entry.key().clone() and drop(entry)
IterNext ==
    \E i \in 1..Len(calls) :
        /\ calls[i].pc = "full"
        /\ \E k \in DOMAIN cache.map : cache_step("iter_next", i, "evict", Some(k), cache.map)

\* self.map.iter().next() on an empty map
IterNone ==
    \E i \in 1..Len(calls) :
        /\ calls[i].pc = "full"
        /\ DOMAIN cache.map = {}
        /\ cache_step("iter_none", i, "room", NoneOpt, cache.map)

\* self.map.remove(&k)
Remove ==
    \E i \in 1..Len(calls) :
        /\ calls[i].pc = "evict"
        /\ cache_step("remove", i, "room", calls[i].victim,
                      dash_remove(cache.map, unwrap(calls[i].victim)))

\* how many calls have done their DashMap::insert
inserts_done(requests) == Cardinality({i \in 1..Len(requests) : requests[i].pc = "done"})

\* self.map.insert(key, value), and the return of the call
Insert ==
    \E i \in 1..Len(calls) :
        /\ calls[i].pc = "room"
        /\ last' = "insert"
        /\ calls' = [calls EXCEPT ![i].pc = "done", ![i].seq = inserts_done(calls) + 1]
        /\ cache' = [cache EXCEPT !.map = dash_insert(@, calls[i].key, calls[i].value)]
        /\ UNCHANGED <<linkbase, data, pos, avx2, in_xbrl_root, current_tuple_stack, document,
                       interner, ret>>

CacheNext ==
    \/ CheckSize
    \/ IterNext
    \/ IterNone
    \/ Remove
    \/ Insert

CacheSpec == CacheInit /\ [][CacheNext]_vars

\* no call of insert is between its first and its last step
no_call_in_flight(requests) ==
    \A i \in 1..Len(requests) : requests[i].pc \in {"call", "done"}

\* C39: after any inserts, also from threads that interleave between the size
\* check, the eviction and the insertion, the cache never holds more than
\* capacity entries, and, the calls made so far having returned, a get of the
\* most recently inserted key returns its value
C39_CacheWithinCapacity ==
    /\ dash_len(cache.map) <= cache.capacity
    /\ \A i \in 1..Len(calls) :
           (/\ no_call_in_flight(calls)
            /\ calls[i].pc = "done"
            /\ calls[i].seq = inserts_done(calls))
               => cache_get(cache, calls[i].key) = Some(calls[i].value)

====
